---- MODULE Spec2Model ----
(***************************************************************************)
(* Model of the pr-review service's diff-position indexer, line resolver   *)
(* and inline-comment dispatcher (src/router/handler.go) together with the *)
(* provider clients it calls (src/lib/github.go, the GitLab client).       *)
(*                                                                         *)
(* Text is modelled as a sequence of one-character strings, so that the    *)
(* prefix tests, trimming, splitting and number parsing of the code are    *)
(* computed and not assumed.                                               *)
(***************************************************************************)
EXTENDS Integers, Sequences, FiniteSets, TLC

(***************************************************************************)
(* Bounds of the model.                                                    *)
(***************************************************************************)
\* number of diff lines generated after the seed diff has been scanned
MaxExtraLines == 4
\* number of issues handed to postInlineIssues in one run
MaxIssues == 2

\* the lines of a generated review text
MaxRows == 2

(***************************************************************************)
(* Go's strings / strconv functions used by the code.                      *)
(***************************************************************************)
Space == {" ", "\t"}

HasPrefix(s, prefix) ==
  /\ Len(s) >= Len(prefix)
  /\ SubSeq(s, 1, Len(prefix)) = prefix

TrimPrefix(s, prefix) ==
  IF HasPrefix(s, prefix) THEN SubSeq(s, Len(prefix) + 1, Len(s)) ELSE s

RECURSIVE TrimLeft(_, _)
TrimLeft(s, cutset) ==
  IF s # <<>> /\ Head(s) \in cutset THEN TrimLeft(Tail(s), cutset) ELSE s

RECURSIVE TrimRight(_, _)
TrimRight(s, cutset) ==
  IF s # <<>> /\ s[Len(s)] \in cutset
  THEN TrimRight(SubSeq(s, 1, Len(s) - 1), cutset)
  ELSE s

Trim(s, cutset) == TrimRight(TrimLeft(s, cutset), cutset)

TrimSpace(s) == Trim(s, Space)

Contains(s, substr) ==
  \E i \in 0..(Len(s) - Len(substr)) : SubSeq(s, i + 1, i + Len(substr)) = substr

\* strings.Split(s, sep) for a one-character separator
RECURSIVE Split(_, _)
Split(s, sep) ==
  IF \E i \in 1..Len(s) : s[i] = sep
  THEN LET i == CHOOSE k \in 1..Len(s) :
                  s[k] = sep /\ \A j \in 1..(k - 1) : s[j] # sep
       IN  <<SubSeq(s, 1, i - 1)>> \o Split(SubSeq(s, i + 1, Len(s)), sep)
  ELSE <<s>>

\* strings.Fields(s): the maximal runs of non-space characters
RECURSIVE Fields(_)
Fields(s) ==
  LET t == TrimLeft(s, Space)
  IN  IF t = <<>> THEN <<>>
      ELSE IF \E i \in 1..Len(t) : t[i] \in Space
      THEN LET i == CHOOSE k \in 1..Len(t) :
                      t[k] \in Space /\ \A j \in 1..(k - 1) : t[j] \notin Space
           IN  <<SubSeq(t, 1, i - 1)>> \o Fields(SubSeq(t, i + 1, Len(t)))
      ELSE <<t>>

RECURSIVE Join(_, _)
Join(parts, sep) ==
  IF parts = <<>> THEN <<>>
  ELSE IF Len(parts) = 1 THEN parts[1]
  ELSE parts[1] \o sep \o Join(Tail(parts), sep)

Digits == <<"0", "1", "2", "3", "4", "5", "6", "7", "8", "9">>

IsDigit(c) == \E d \in 1..Len(Digits) : Digits[d] = c

DigitVal(c) == (CHOOSE d \in 1..Len(Digits) : Digits[d] = c) - 1

RECURSIVE DecimalVal(_)
DecimalVal(s) ==
  IF s = <<>> THEN 0
  ELSE DecimalVal(SubSeq(s, 1, Len(s) - 1)) * Len(Digits) + DigitVal(s[Len(s)])

\* strconv.Atoi: an optional sign followed by one or more decimal digits
Atoi(s) ==
  LET signed == s # <<>> /\ Head(s) \in {"+", "-"}
      body   == IF signed THEN Tail(s) ELSE s
  IN  IF body = <<>> \/ \E i \in 1..Len(body) : ~IsDigit(body[i])
      THEN [err |-> TRUE, value |-> 0]
      ELSE [err |-> FALSE,
            value |-> IF signed /\ Head(s) = "-"
                      THEN 0 - DecimalVal(body) ELSE DecimalVal(body)]

\* m[k] = v on a Go map
Put(m, k, v) == [x \in (DOMAIN m) \cup {k} |-> IF x = k THEN v ELSE m[x]]

EmptyMap == [x \in {} |-> 0]

(***************************************************************************)
(* Diff text: the lines the indexer distinguishes.                         *)
(***************************************************************************)
DiffGitPrefix == <<"d", "i", "f", "f", " ", "-", "-", "g", "i", "t", " ">>
PlusPlusPlus  == <<"+", "+", "+", " ">>
PlusPlusPlusB == <<"+", "+", "+", " ", "b", "/">>
AtAt          == <<"@", "@">>
NoNewline     == <<"\\", " ", "N", "o", " ", "n", "e", "w", "l", "i", "n", "e",
                   " ", "a", "t", " ", "e", "n", "d", " ", "o", "f", " ",
                   "f", "i", "l", "e">>

FileA == <<"a", ".", "g", "o">>
FileB == <<"b", ".", "g", "o">>
FileZ == <<"z", ".", "g", "o">>

LineDiffGit   == DiffGitPrefix \o <<"a", "/", "x", " ", "b", "/", "x">>
LineMinusA    == <<"-", "-", "-", " ", "a", "/">> \o FileA
LineFileA     == PlusPlusPlusB \o FileA
LineFileB     == PlusPlusPlusB \o FileB
LineDevNull   == PlusPlusPlus \o <<"/", "d", "e", "v", "/", "n", "u", "l", "l">>
LineIndex     == <<"i", "n", "d", "e", "x", " ", "1", "2">>

\* "@@ -10,3 +10,4 @@"
Hunk10 == <<"@", "@", " ", "-", "1", "0", ",", "3", " ",
            "+", "1", "0", ",", "4", " ", "@", "@">>
\* "@@ -20,2 +21,2 @@ func f()"
Hunk20 == <<"@", "@", " ", "-", "2", "0", ",", "2", " ",
            "+", "2", "1", ",", "2", " ", "@", "@", " ", "f", "(", ")">>
\* "@@ -0,0 +1 @@" (a new file: no old side)
HunkNew == <<"@", "@", " ", "-", "0", ",", "0", " ", "+", "1", " ", "@", "@">>
\* "@@ -1,2 +0,0 @@" (a hunk that empties the file)
HunkDel == <<"@", "@", " ", "-", "1", ",", "2", " ", "+", "0", ",", "0", " ", "@", "@">>
\* "@@ garbled" (no line ranges)
HunkBad == <<"@", "@", " ", "g", "a", "r", "b", "l", "e", "d">>

TextContext  == <<"c", "o", "n", "t", "e", "x", "t">>
TextContext2 == TextContext \o <<"2">>
TextOldLine  == <<"o", "l", "d", " ", "l", "i", "n", "e">>
TextNewLine  == <<"n", "e", "w", " ", "l", "i", "n", "e">>
TextAdded2   == <<"a", "d", "d", "e", "d", " ", "l", "i", "n", "e", "2">>
TextLine     == <<"l", "i", "n", "e">>

BodyContext  == <<" ">> \o TextContext
BodyOldLine  == <<"-">> \o TextOldLine
BodyNewLine  == <<"+">> \o TextNewLine
BodyAdded2   == <<"+">> \o TextAdded2
BodyContext2 == <<" ">> \o TextContext2

\* the diff of the specification's worked example
ExampleDiff ==
  <<LineDiffGit, LineMinusA, LineFileA, Hunk10,
    BodyContext, BodyOldLine, BodyNewLine, BodyAdded2, BodyContext2>>

(***************************************************************************)
(* buildDiffPositionMap (handler.go 409-525) and its hunk-header parsers.  *)
(***************************************************************************)
parseNewHunkStart(hunkLine) ==
  LET parts == Split(hunkLine, " ")
  IN  IF Len(parts) < 3 THEN 0
      ELSE LET newPart == Split(TrimPrefix(parts[3], <<"+">>), ",")[1]
               n       == Atoi(newPart)
           IN  IF n.err THEN 0 ELSE n.value

\* slip: the old start read from the new range
parseOldHunkStartFromNewRange(hunkLine) == parseNewHunkStart(hunkLine)

parseOldHunkStart(hunkLine) ==
  LET parts == Split(hunkLine, " ")
  IN  IF Len(parts) < 2 THEN 0
      ELSE LET oldPart == Split(TrimPrefix(parts[2], <<"-">>), ",")[1]
               n       == Atoi(oldPart)
           IN  IF n.err THEN 0 ELSE n.value

diffLineInfo(position, content, type) ==
  [Position |-> position, Content |-> content, Type |-> type]

diffPositionLines == [Old |-> EmptyMap, New |-> EmptyMap]

\* the locals of buildDiffPositionMap before the first line is scanned
ScanStart ==
  [lineMap |-> EmptyMap, currentFile |-> <<>>, oldLine |-> 0, newLine |-> 0,
   inPatch |-> FALSE, inHunk |-> FALSE, position |-> 0]

\* the three header branches reset the per-file locals
ResetFile(s, file, patch) ==
  [s EXCEPT !.currentFile = file, !.oldLine = 0, !.newLine = 0,
            !.inPatch = patch, !.inHunk = FALSE, !.position = 0]

\* a line of the diff is recorded in the index iff the scan reaches position++
IsIndexed(s, line) ==
  /\ ~HasPrefix(line, DiffGitPrefix)
  /\ ~HasPrefix(line, PlusPlusPlus)
  /\ s.inPatch /\ s.currentFile # <<>>
  /\ ~HasPrefix(line, AtAt)
  /\ s.inHunk /\ ~(s.oldLine = 0 /\ s.newLine = 0)
  /\ line # NoNewline
  /\ line # <<>>
  /\ (HasPrefix(line, <<"+">>) \/ HasPrefix(line, <<"-">>) \/ HasPrefix(line, <<" ">>))

RecordAdded(s, line) ==
  LET f == s.lineMap[s.currentFile]
      p == s.position + 1
  IN  [s EXCEPT !.position = p,
                !.lineMap = Put(s.lineMap, s.currentFile,
                                [f EXCEPT !.New = Put(f.New, s.newLine,
                                    diffLineInfo(p, TrimPrefix(line, <<"+">>), "+"))]),
                !.newLine = s.newLine + 1]

RecordRemoved(s, line) ==
  LET f == s.lineMap[s.currentFile]
      p == s.position + 1
  IN  [s EXCEPT !.position = p,
                !.lineMap = Put(s.lineMap, s.currentFile,
                                [f EXCEPT !.Old = Put(f.Old, s.oldLine,
                                    diffLineInfo(p, TrimPrefix(line, <<"-">>), "-"))]),
                !.oldLine = s.oldLine + 1]

\* slip: a context line recorded on the new side only
RecordContextNewOnly(s, line) ==
  LET f       == s.lineMap[s.currentFile]
      p       == s.position + 1
      trimmed == TrimPrefix(line, <<" ">>)
  IN  [s EXCEPT !.position = p,
                !.lineMap = Put(s.lineMap, s.currentFile,
                                [f EXCEPT !.New = Put(f.New, s.newLine,
                                                      diffLineInfo(p, trimmed, " "))]),
                !.oldLine = s.oldLine + 1,
                !.newLine = s.newLine + 1]

RecordContext(s, line) ==
  LET f       == s.lineMap[s.currentFile]
      p       == s.position + 1
      trimmed == TrimPrefix(line, <<" ">>)
  IN  [s EXCEPT !.position = p,
                !.lineMap = Put(s.lineMap, s.currentFile,
                                [Old |-> Put(f.Old, s.oldLine, diffLineInfo(p, trimmed, " ")),
                                 New |-> Put(f.New, s.newLine, diffLineInfo(p, trimmed, " "))]),
                !.oldLine = s.oldLine + 1,
                !.newLine = s.newLine + 1]

\* slip: the position restarts at every hunk
HunkHeaderResetsPosition(s, line) ==
  [s EXCEPT !.oldLine = parseOldHunkStart(line),
            !.newLine = parseNewHunkStart(line),
            !.inHunk = TRUE,
            !.position = 0]

HunkHeader(s, line) ==
  [s EXCEPT !.oldLine = parseOldHunkStart(line),
            !.newLine = parseNewHunkStart(line),
            !.inHunk = TRUE]

FileHeader(s, line) ==
  LET file == TrimSpace(TrimPrefix(line, PlusPlusPlusB))
      r    == ResetFile(s, file, TRUE)
  IN  IF file # <<>> /\ file \notin DOMAIN s.lineMap
      THEN [r EXCEPT !.lineMap = Put(s.lineMap, file, diffPositionLines)]
      ELSE r

\* slip: body lines are indexed without a hunk header that gave a start
ScanLineWithoutHunk(s, line) ==
  IF HasPrefix(line, DiffGitPrefix) THEN ResetFile(s, <<>>, FALSE)
  ELSE IF HasPrefix(line, PlusPlusPlus) /\ ~HasPrefix(line, PlusPlusPlusB)
  THEN ResetFile(s, <<>>, FALSE)
  ELSE IF HasPrefix(line, PlusPlusPlusB) THEN FileHeader(s, line)
  ELSE IF ~s.inPatch \/ s.currentFile = <<>> THEN s
  ELSE IF HasPrefix(line, AtAt) THEN HunkHeader(s, line)
  ELSE IF line = NoNewline THEN s
  ELSE IF line = <<>> THEN s
  ELSE IF ~HasPrefix(line, <<"+">>) /\ ~HasPrefix(line, <<"-">>)
          /\ ~HasPrefix(line, <<" ">>) THEN s
  ELSE IF HasPrefix(line, <<"+">>) THEN RecordAdded(s, line)
  ELSE IF HasPrefix(line, <<"-">>) THEN RecordRemoved(s, line)
  ELSE RecordContext(s, line)

\* slip: the "no newline" marker takes a position
ScanLineCountsMarker(s, line) ==
  IF HasPrefix(line, DiffGitPrefix) THEN ResetFile(s, <<>>, FALSE)
  ELSE IF HasPrefix(line, PlusPlusPlus) /\ ~HasPrefix(line, PlusPlusPlusB)
  THEN ResetFile(s, <<>>, FALSE)
  ELSE IF HasPrefix(line, PlusPlusPlusB) THEN FileHeader(s, line)
  ELSE IF ~s.inPatch \/ s.currentFile = <<>> THEN s
  ELSE IF HasPrefix(line, AtAt) THEN HunkHeader(s, line)
  ELSE IF ~s.inHunk \/ (s.oldLine = 0 /\ s.newLine = 0) THEN s
  ELSE IF line = NoNewline THEN [s EXCEPT !.position = @ + 1]
  ELSE IF line = <<>> THEN s
  ELSE IF ~HasPrefix(line, <<"+">>) /\ ~HasPrefix(line, <<"-">>)
          /\ ~HasPrefix(line, <<" ">>) THEN s
  ELSE IF HasPrefix(line, <<"+">>) THEN RecordAdded(s, line)
  ELSE IF HasPrefix(line, <<"-">>) THEN RecordRemoved(s, line)
  ELSE RecordContext(s, line)

\* one iteration of the loop over the lines of the diff
ScanLine(s, line) ==
  IF HasPrefix(line, DiffGitPrefix) THEN ResetFile(s, <<>>, FALSE)
  ELSE IF HasPrefix(line, PlusPlusPlus) /\ ~HasPrefix(line, PlusPlusPlusB)
  THEN ResetFile(s, <<>>, FALSE)
  ELSE IF HasPrefix(line, PlusPlusPlusB) THEN FileHeader(s, line)
  ELSE IF ~s.inPatch \/ s.currentFile = <<>> THEN s
  ELSE IF HasPrefix(line, AtAt) THEN HunkHeader(s, line)
  ELSE IF ~s.inHunk \/ (s.oldLine = 0 /\ s.newLine = 0) THEN s
  ELSE IF line = NoNewline THEN s
  ELSE IF line = <<>> THEN s
  ELSE IF ~HasPrefix(line, <<"+">>) /\ ~HasPrefix(line, <<"-">>)
          /\ ~HasPrefix(line, <<" ">>) THEN s
  ELSE IF HasPrefix(line, <<"+">>) THEN RecordAdded(s, line)
  ELSE IF HasPrefix(line, <<"-">>) THEN RecordRemoved(s, line)
  ELSE RecordContext(s, line)

RECURSIVE ScanLines(_, _)
ScanLines(s, lines) ==
  IF lines = <<>> THEN s ELSE ScanLines(ScanLine(s, Head(lines)), Tail(lines))

buildDiffPositionMap(diffLines) == ScanLines(ScanStart, diffLines).lineMap

(***************************************************************************)
(* The line resolver (handler.go 641-781).  A lines map is a function from *)
(* line numbers to diffLineInfo records; results are [ok, info] pairs.     *)
(***************************************************************************)
\* the one character U+0060 (backtick)
Backtick == "U+0060"
\* the one character U+2026 (horizontal ellipsis)
Ellipsis == <<"U+2026">>
ThreeDots == <<".", ".", ".">>

NoInfo == diffLineInfo(0, <<>>, "")

NotFound == [ok |-> FALSE, info |-> NoInfo]

Found(info) == [ok |-> TRUE, info |-> info]

normalizeSnippet(input) ==
  LET trimmed == TrimSpace(Trim(input, {Backtick}))
  IN  IF trimmed = <<>> THEN <<>> ELSE Join(Fields(trimmed), <<" ">>)

isInvalidSnippet(snippet) ==
  LET normalized == normalizeSnippet(snippet)
  IN  \/ normalized = <<>>
      \/ Contains(normalized, ThreeDots)
      \/ Contains(normalized, Ellipsis)

\* the line numbers of the map whose content contains the snippet
SnippetMatches(lines, normalized) ==
  {n \in DOMAIN lines : Contains(normalizeSnippet(lines[n].Content), normalized)}

\* slip: the first matching line is taken, however many lines match
findBySnippetFirstMatch(lines, snippet) ==
  LET normalized == normalizeSnippet(snippet)
      matches    == SnippetMatches(lines, normalized)
  IN  IF normalized = <<>> \/ matches = {} THEN NotFound
      ELSE Found(lines[CHOOSE n \in matches : \A m \in matches : n <= m])

findBySnippet(lines, snippet) ==
  LET normalized == normalizeSnippet(snippet)
      matches    == SnippetMatches(lines, normalized)
  IN  IF normalized = <<>> THEN NotFound
      ELSE IF Cardinality(matches) = 1
      THEN Found(lines[CHOOSE n \in matches : TRUE])
      ELSE NotFound

SideLeft  == <<"L", "E", "F", "T">>
SideRight == <<"R", "I", "G", "H", "T">>

\* issue.Code without the diff marker the review text may have echoed
cleanCode(issue) ==
  IF Len(issue.Code) > 0 /\ Head(issue.Code) \in {"+", "-"}
  THEN TrimSpace(Tail(issue.Code))
  ELSE issue.Code

\* slip: the side hint restricts the search to its own map
resolveBySnippetHintedOnly(fileLines, issue) ==
  LET code  == cleanCode(issue)
      inNew == findBySnippet(fileLines.New, code)
      inOld == findBySnippet(fileLines.Old, code)
  IN  IF issue.Side # SideLeft /\ inNew.ok THEN inNew
      ELSE IF issue.Side # SideRight /\ inOld.ok THEN inOld
      ELSE NotFound

\* strategy 1: the snippet, in the new lines and the old lines in the order
\* the side gives
resolveBySnippet(fileLines, issue) ==
  LET code     == cleanCode(issue)
      inNew    == findBySnippet(fileLines.New, code)
      inOld    == findBySnippet(fileLines.Old, code)
  IN  IF issue.Side # SideLeft /\ inNew.ok THEN inNew
      ELSE IF issue.Side # SideRight /\ inOld.ok THEN inOld
      ELSE IF issue.Side = SideLeft /\ inNew.ok THEN inNew
      ELSE IF issue.Side = SideRight /\ inOld.ok THEN inOld
      ELSE NotFound

\* slip: the side of the issue is not looked at
resolveByLineNumberAnySide(fileLines, issue) ==
  IF issue.NewLine > 0 /\ issue.NewLine \in DOMAIN fileLines.New
  THEN Found(fileLines.New[issue.NewLine])
  ELSE IF issue.OldLine > 0 /\ issue.OldLine \in DOMAIN fileLines.Old
  THEN Found(fileLines.Old[issue.OldLine])
  ELSE NotFound

\* strategy 2: the line numbers
resolveByLineNumber(fileLines, issue) ==
  IF issue.Side = SideRight /\ issue.NewLine > 0
     /\ issue.NewLine \in DOMAIN fileLines.New
  THEN Found(fileLines.New[issue.NewLine])
  ELSE IF issue.Side = SideLeft /\ issue.OldLine > 0
          /\ issue.OldLine \in DOMAIN fileLines.Old
  THEN Found(fileLines.Old[issue.OldLine])
  ELSE IF issue.NewLine > 0 /\ issue.NewLine \in DOMAIN fileLines.New
  THEN Found(fileLines.New[issue.NewLine])
  ELSE IF issue.OldLine > 0 /\ issue.OldLine \in DOMAIN fileLines.Old
  THEN Found(fileLines.Old[issue.OldLine])
  ELSE NotFound

\* slip: the line numbers tried when the snippet finds nothing
resolveLineInfoWithFallback(fileLines, issue) ==
  LET code == cleanCode(issue)
  IN  IF code # <<>> /\ ~isInvalidSnippet(code) /\ resolveBySnippet(fileLines, issue).ok
      THEN resolveBySnippet(fileLines, issue)
      ELSE resolveByLineNumber(fileLines, issue)

resolveLineInfo(fileLines, issue) ==
  LET code == cleanCode(issue)
  IN  IF code # <<>> /\ isInvalidSnippet(code) THEN NotFound
      ELSE IF code # <<>> THEN resolveBySnippet(fileLines, issue)
      ELSE resolveByLineNumber(fileLines, issue)

\* findLineNumberByPosition ranges over a Go map, whose iteration order is
\* not specified: any line number holding the position may be returned
findLineNumberByPosition(lines, position) ==
  LET hits == {n \in DOMAIN lines : lines[n].Position = position}
  IN  IF hits = {} THEN {0} ELSE hits

\* slip: the comment's line compared with the line after the target
isDuplicateCommentNextLine(existingComments, filePath, line) ==
  \E comment \in existingComments : comment.Path = filePath /\ comment.Line = line + 1

isDuplicateComment(existingComments, filePath, line) ==
  \E comment \in existingComments : comment.Path = filePath /\ comment.Line = line

(***************************************************************************)
(* The decisions of the dispatcher (handler.go 583-626).                        *)
(***************************************************************************)
ProviderTypeGitHub == "github"
ProviderTypeGitLab == "gitlab"

\* slip: context lines are never withheld
ContextPolicyNone(type, onlyChanges, providerType) == "post"

\* slip: GitLab context lines are left out of the fallback list
ContextPolicyDropsAll(type, onlyChanges, providerType) ==
  IF type = " " /\ (onlyChanges \/ providerType = ProviderTypeGitLab)
  THEN "drop" ELSE "post"

\* slip: GitHub context lines are sent to the fallback list as on GitLab
ContextPolicyAlwaysFallback(type, onlyChanges, providerType) ==
  IF type = " " THEN IF onlyChanges THEN "drop" ELSE "fallback" ELSE "post"

\* lines 583-592: what happens to an issue resolved to a line of this type
ContextPolicy(type, onlyChanges, providerType) ==
  IF type = " "
  THEN IF onlyChanges THEN "drop"
       ELSE IF providerType = ProviderTypeGitLab THEN "fallback"
       ELSE "post"
  ELSE "post"

\* slip: the line number of an added or removed line stored on the other side
ActualLinesSwapped(fileLines, lineInfo) ==
  IF lineInfo.Type = "+"
  THEN {[old |-> n, new |-> 0] :
          n \in findLineNumberByPosition(fileLines.New, lineInfo.Position)}
  ELSE IF lineInfo.Type = "-"
  THEN {[old |-> 0, new |-> o] :
          o \in findLineNumberByPosition(fileLines.Old, lineInfo.Position)}
  ELSE {[old |-> o, new |-> n] :
          o \in findLineNumberByPosition(fileLines.Old, lineInfo.Position),
          n \in findLineNumberByPosition(fileLines.New, lineInfo.Position)}

\* lines 596-607: the (actualOldLine, actualNewLine) pairs the reverse lookup
\* of the position may give
ActualLines(fileLines, lineInfo) ==
  IF lineInfo.Type = "+"
  THEN {[old |-> 0, new |-> n] :
          n \in findLineNumberByPosition(fileLines.New, lineInfo.Position)}
  ELSE IF lineInfo.Type = "-"
  THEN {[old |-> o, new |-> 0] :
          o \in findLineNumberByPosition(fileLines.Old, lineInfo.Position)}
  ELSE {[old |-> o, new |-> n] :
          o \in findLineNumberByPosition(fileLines.Old, lineInfo.Position),
          n \in findLineNumberByPosition(fileLines.New, lineInfo.Position)}

\* lines 610-613
TargetLine(actual) == IF actual.new = 0 THEN actual.old ELSE actual.new

\* slip: the position counted from 0
LineParamFromZero(providerType, lineInfo) ==
  IF providerType = ProviderTypeGitLab THEN 0 ELSE lineInfo.Position - 1

\* lines 619-626
LineParam(providerType, lineInfo) ==
  IF providerType = ProviderTypeGitLab THEN 0 ELSE lineInfo.Position

(***************************************************************************)
(* The provider clients' PostInlineComment.  `net` is what the network     *)
(* does: "ok", "no_mr" (GitLab's merge-request lookup fails) or "refused"  *)
(* (the post is not answered 201).  The result is the error flag and the   *)
(* requests sent.                                                          *)
(***************************************************************************)
Net == {"ok", "no_mr", "refused"}

\* slip: old_line sent along with new_line
GitLabPositionObjBoth(path, oldLine, newLine) ==
  [new_path |-> path, old_path |-> path]
  @@ (IF newLine > 0 THEN "new_line" :> newLine ELSE EmptyMap)
  @@ (IF oldLine > 0 THEN "old_line" :> oldLine ELSE EmptyMap)

\* the position object of the discussion request (GitLab client, lines
\* 752-772); the caller has excluded newLine = oldLine = 0
GitLabPositionObj(path, oldLine, newLine) ==
  [new_path |-> path, old_path |-> path]
  @@ (IF newLine > 0 THEN "new_line" :> newLine ELSE "old_line" :> oldLine)

GitLabPostInlineComment(path, oldLine, newLine, net) ==
  IF net = "no_mr" THEN [err |-> TRUE, sent |-> <<>>]
  ELSE IF ~(newLine > 0) /\ ~(oldLine > 0) THEN [err |-> TRUE, sent |-> <<>>]
  ELSE [err |-> net # "ok",
        sent |-> <<[api |-> ProviderTypeGitLab,
                    position |-> GitLabPositionObj(path, oldLine, newLine)]>>]

GitHubPostInlineComment(path, position, net) ==
  [err |-> net # "ok",
   sent |-> <<[api |-> ProviderTypeGitHub, path |-> path, position |-> position]>>]

(***************************************************************************)
(* The parser of the review text: parseIssuesFromReview (handler.go        *)
(* 260-345), splitTableRow, parseFileLine and parseLineNumber (347-396).   *)
(* "U+FF5C" stands for the full-width bar, "U+6587" "U+4EF6" "U+540D" for  *)
(* the three characters of the header keyword of line 275.                 *)
(***************************************************************************)
Bar == "|"
FullWidthBar == "U+FF5C"
Newline == "\n"
HeaderKeyword == <<"U+6587", "U+4EF6", "U+540D">>
Dashes == <<"-", "-", "-">>
BacktickOrSpace == {Backtick, " "}

\* strings.ReplaceAll(line, full-width bar, "|")
ReplaceAll(s, old, new) == [i \in 1..Len(s) |-> IF s[i] = old THEN new ELSE s[i]]

\* strings.SplitN(s, sep, 2)
SplitN2(s, sep) ==
  IF \E i \in 1..Len(s) : s[i] = sep
  THEN LET i == CHOOSE k \in 1..Len(s) :
                  s[k] = sep /\ \A j \in 1..(k - 1) : s[j] # sep
       IN  <<SubSeq(s, 1, i - 1), SubSeq(s, i + 1, Len(s))>>
  ELSE <<s>>

RECURSIVE DropEmpty(_)
DropEmpty(cells) ==
  IF cells = <<>> THEN <<>>
  ELSE IF TrimSpace(Head(cells)) = <<>> THEN DropEmpty(Tail(cells))
  ELSE <<TrimSpace(Head(cells))>> \o DropEmpty(Tail(cells))

splitTableRow(line) == DropEmpty(Split(line, Bar))

parseLineNumber(input) ==
  LET trimmed == TrimSpace(Trim(input, BacktickOrSpace))
      parsed  == Atoi(trimmed)
  IN  IF trimmed = <<>> \/ trimmed = <<"-">> THEN 0
      ELSE IF parsed.err \/ parsed.value <= 0 THEN 0
      ELSE parsed.value

\* the result (file, lineNum, side, ok) of parseFileLine
parseFileLine(input) ==
  LET trimmed0 == TrimSpace(input)
      side     == IF HasPrefix(trimmed0, <<"+">>) THEN SideRight
                  ELSE IF HasPrefix(trimmed0, <<"-">>) THEN SideLeft
                  ELSE <<>>
      trimmed  == IF HasPrefix(trimmed0, <<"+">>)
                  THEN TrimSpace(TrimPrefix(trimmed0, <<"+">>))
                  ELSE IF HasPrefix(trimmed0, <<"-">>)
                  THEN TrimSpace(TrimPrefix(trimmed0, <<"-">>))
                  ELSE trimmed0
      parts    == SplitN2(trimmed, ":")
      failed   == [file |-> <<>>, lineNum |-> 0, side |-> <<>>, ok |-> FALSE]
  IN  IF Len(parts) # 2 THEN failed
      ELSE LET lineNum == Atoi(Trim(parts[2], BacktickOrSpace))
           IN  IF lineNum.err \/ lineNum.value <= 0 THEN failed
               ELSE [file |-> Trim(parts[1], BacktickOrSpace),
                     lineNum |-> lineNum.value, side |-> side, ok |-> TRUE]

\* slip: a row of 8 cells is read as if it had a Side column
severityIndexSideAlways(n) == IF n >= 8 THEN 5 ELSE 3

\* lines 295-307: the 0-based index of the severity cell
severityIndex(n) == IF n >= 9 THEN 5 ELSE IF n >= 8 THEN 4 ELSE 3

\* lines 279-323: a row of six or more cells; the issues it adds
parseWideRow(cells) ==
  LET n       == Len(cells)
      file    == Trim(cells[1], BacktickOrSpace)
      oldLine == parseLineNumber(cells[2])
      newLine == parseLineNumber(cells[3])
      sev     == severityIndex(n) + 1
  IN  IF file = <<>> \/ (oldLine = 0 /\ newLine = 0) THEN <<>>
      ELSE <<[File |-> file,
              Side |-> IF n >= 9 THEN TrimSpace(cells[4]) ELSE <<>>,
              OldLine |-> oldLine,
              NewLine |-> newLine,
              Code |-> IF n >= 9 THEN Trim(cells[5], BacktickOrSpace)
                       ELSE IF n >= 8 THEN Trim(cells[4], BacktickOrSpace)
                       ELSE <<>>,
              Severity |-> TrimSpace(cells[sev]),
              Category |-> TrimSpace(cells[sev + 1]),
              Problem |-> TrimSpace(cells[sev + 2]),
              Suggestion |-> IF n > sev + 2 THEN TrimSpace(cells[sev + 3]) ELSE <<>>]>>

\* lines 326-341: a row of five cells whose first cell is path:line
parseNarrowRow(cells) ==
  LET first == parseFileLine(cells[1])
  IN  IF ~first.ok THEN <<>>
      ELSE <<[File |-> first.file, Side |-> first.side, OldLine |-> 0,
              NewLine |-> first.lineNum, Code |-> <<>>,
              Severity |-> TrimSpace(cells[2]),
              Category |-> TrimSpace(cells[3]),
              Problem |-> TrimSpace(cells[4]),
              Suggestion |-> TrimSpace(cells[5])]>>

\* lines 265-341: the body of the loop; the issues one line adds
parseReviewLine(line) ==
  LET normalized == ReplaceAll(line, FullWidthBar, Bar)
      cells      == splitTableRow(normalized)
  IN  IF ~Contains(normalized, <<Bar>>) THEN <<>>
      ELSE IF Len(cells) < 5 THEN <<>>
      ELSE IF Contains(cells[1], HeaderKeyword) \/ Contains(cells[1], Dashes) THEN <<>>
      ELSE IF Len(cells) >= 6 THEN parseWideRow(cells)
      ELSE parseNarrowRow(cells)

RECURSIVE parseReviewLinesNewestFirst(_)
\* slip: each extracted issue is put in front of the earlier ones
parseReviewLinesNewestFirst(lines) ==
  IF lines = <<>> THEN <<>>
  ELSE parseReviewLinesNewestFirst(Tail(lines)) \o parseReviewLine(Head(lines))

RECURSIVE parseReviewLines(_)
parseReviewLines(lines) ==
  IF lines = <<>> THEN <<>>
  ELSE parseReviewLine(Head(lines)) \o parseReviewLines(Tail(lines))

parseIssuesFromReview(content) == parseReviewLines(Split(content, Newline))

(***************************************************************************)
(* The fallback table of the summary comment: buildUnmatchedIssuesTable,   *)
(* formatLineValue and escapeTable (handler.go 900-938).  The text is kept *)
(* as the sequence of its lines; "U+xxxx" stands for one character.        *)
(***************************************************************************)
CellSep == <<" ", "|", " ">>

\* a table row of the cells, without and with the outer bars
Row(cells) == Join(cells, CellSep)

RowInBars(cells) == <<"|", " ">> \o Join(cells, CellSep) \o <<" ", "|">>

RECURSIVE Itoa(_)
\* strconv.Itoa for a number >= 0
Itoa(n) ==
  IF n < 10 THEN <<Digits[n + 1]>> ELSE Itoa(n \div 10) \o <<Digits[(n % 10) + 1]>>

formatLineValue(value) == IF value <= 0 THEN <<"-">> ELSE Itoa(value)

\* strings.ReplaceAll of one character by a text: the pieces between the
\* occurrences of the character, joined by the text
ReplaceChar(s, old, new) == Join(Split(s, old), new)

escapeTable(value) ==
  LET trimmed == TrimSpace(value)
  IN  IF trimmed = <<>> THEN <<"-">>
      ELSE ReplaceChar(ReplaceChar(trimmed, Newline, <<" ">>), Bar, <<"\\", Bar>>)

TableTitle == <<"#", "#", "#", " ">> \o <<"U+5176", "U+4ED6", "U+95EE", "U+9898">>
TableHeader ==
  RowInBars(<<HeaderKeyword, <<"U+4EE3", "U+7801", "U+7247", "U+6BB5">>, <<"U+4E25", "U+91CD", "U+7A0B", "U+5EA6">>, <<"U+7C7B", "U+522B">>, <<"U+95EE", "U+9898", "U+63CF", "U+8FF0">>, <<"U+5EFA", "U+8BAE", "U+4FEE", "U+6539">>>>)
TableSeparator == <<"|", "-", "-", "-", "|", "-", "-", "-", "|", "-", "-", "-", "|",
                    "-", "-", "-", "|", "-", "-", "-", "|", "-", "-", "-", "|">>

\* line 910: the row of one issue
tableRow(issue) ==
  RowInBars(<<escapeTable(issue.File) \o <<":">> \o formatLineValue(issue.NewLine),
              escapeTable(issue.Code), escapeTable(issue.Severity),
              escapeTable(issue.Category), escapeTable(issue.Problem),
              escapeTable(issue.Suggestion)>>)

\* slip: the table stops after its first row
buildUnmatchedIssuesTableFirstRow(issueList) ==
  IF Len(issueList) = 0 THEN <<>>
  ELSE <<TableTitle, TableHeader, TableSeparator, tableRow(issueList[1])>>

buildUnmatchedIssuesTable(issueList) ==
  IF Len(issueList) = 0 THEN <<>>
  ELSE <<TableTitle, TableHeader, TableSeparator>>
         \o [i \in 1..Len(issueList) |-> tableRow(issueList[i])]

(***************************************************************************)
(* State.                                                                  *)
(*   pc        where ProcessReview stands                                  *)
(*   diffText  the lines of the diff still to be scanned                   *)
(*   extra     how many generated lines have been scanned after them       *)
(*   cur       the line scanned last                                       *)
(*   scan      the locals of buildDiffPositionMap                          *)
(*   hunk      history: the last hunk header scanned for the current file  *)
(*             and the markers of the lines indexed since                  *)
(*   overlap   history: a line number of a file was indexed twice          *)
(*   provider, commentOnlyChanges   the client's type and the configured   *)
(*             comment_only_changes flag                                   *)
(*   positionMap, existingComments, unmatched, posted   the locals of      *)
(*             ProcessReview and postInlineIssues                          *)
(*   nIssues   the length of the issue list handed to postInlineIssues     *)
(*   issues    the issues the loop has taken from it so far                *)
(*   calls     history: the PostInlineComment calls made                   *)
(*   requests  history: the requests the clients sent for them             *)
(*   last      history: what the last iteration of the loop did            *)
(*   comments  history: the PostComment calls made                         *)
(*   reviewContent   the review text handed to parseIssuesFromReview        *)
(*   reviewLines     its lines still to be read                             *)
(*   parsed    the issues extracted so far                                  *)
(*   row       history: the line read last                                  *)
(***************************************************************************)
VARIABLES pc, diffText, extra, cur, scan, hunk, overlap,
          provider, commentOnlyChanges, positionMap, existingComments,
          nIssues, issues, unmatched, posted, calls, requests, last, comments,
          reviewContent, reviewLines, parsed, row, attempts,
          cfg, world, served, response, runs

scanVars == <<diffText, extra, cur, scan, hunk, overlap>>

runVars == <<provider, commentOnlyChanges, positionMap, existingComments,
             nIssues, issues, unmatched, posted, calls, requests, last, comments>>

parseVars == <<reviewContent, reviewLines, parsed, row, attempts>>

serverVars == <<cfg, world, served, response, runs>>

vars == <<pc, scanVars, runVars, parseVars, serverVars>>

NoHunk == [header |-> <<>>, body |-> <<>>]

\* the lines a generated diff is made of
DiffLines ==
  {LineDiffGit, LineFileA, LineFileB, LineDevNull, LineIndex, NoNewline, <<>>,
   Hunk10, Hunk20, HunkNew, HunkBad,
   BodyContext, BodyOldLine, BodyNewLine}

\* the diffs a scan starts from
SeedDiffs == {<<>>, <<LineFileA, Hunk10>>, ExampleDiff}

IsFileHeader(line) == HasPrefix(line, DiffGitPrefix) \/ HasPrefix(line, PlusPlusPlus)

IsHunkHeader(s, line) ==
  /\ ~IsFileHeader(line)
  /\ s.inPatch /\ s.currentFile # <<>>
  /\ HasPrefix(line, AtAt)

\* the map keys the line is about to be written to
WritesOld(s, line) == IsIndexed(s, line) /\ Head(line) \in {"-", " "}
WritesNew(s, line) == IsIndexed(s, line) /\ Head(line) \in {"+", " "}

Overwrites(s, line) ==
  \/ WritesOld(s, line) /\ s.oldLine \in DOMAIN s.lineMap[s.currentFile].Old
  \/ WritesNew(s, line) /\ s.newLine \in DOMAIN s.lineMap[s.currentFile].New

(***************************************************************************)
(* The input contract of the indexer (spec section 6): unified-diff text   *)
(* of the conventional grammar.  A line conforms after the lines scanned   *)
(* so far iff                                                              *)
(*   - a "+++ b/<path>" header names a path that has no section yet;       *)
(*   - a hunk header carries both ranges, and its ranges start beyond the  *)
(*     lines of the file indexed so far;                                   *)
(*   - a side whose range starts at 0 (the file does not exist on that     *)
(*     side) has no lines.                                                 *)
(***************************************************************************)
MaxKey(m) == IF DOMAIN m = {} THEN 0
             ELSE CHOOSE k \in DOMAIN m : \A j \in DOMAIN m : j <= k

Conforms(s, line) ==
  /\ HasPrefix(line, PlusPlusPlusB) =>
       TrimSpace(TrimPrefix(line, PlusPlusPlusB)) \notin DOMAIN s.lineMap
  /\ IsHunkHeader(s, line) =>
       /\ line \in {Hunk10, Hunk20, HunkNew}
       /\ LET f == s.lineMap[s.currentFile]
          IN  /\ DOMAIN f.Old # {} => parseOldHunkStart(line) > MaxKey(f.Old)
              /\ DOMAIN f.New # {} => parseNewHunkStart(line) > MaxKey(f.New)
  /\ WritesOld(s, line) => s.oldLine > 0
  /\ WritesNew(s, line) => s.newLine > 0

(***************************************************************************)
(* The scan of buildDiffPositionMap, one line per step.                    *)
(***************************************************************************)
Scan(line) ==
  /\ scan' = ScanLine(scan, line)
  /\ cur' = line
  /\ hunk' = IF IsFileHeader(line) THEN NoHunk
             ELSE IF IsHunkHeader(scan, line) THEN [header |-> line, body |-> <<>>]
             ELSE IF IsIndexed(scan, line)
             THEN [hunk EXCEPT !.body = Append(@, Head(line))]
             ELSE hunk
  /\ overlap' = (overlap \/ Overwrites(scan, line))

\* the next line of the seed diff
ScanSeed ==
  /\ pc = "scan"
  /\ diffText # <<>>
  /\ Scan(Head(diffText))
  /\ diffText' = Tail(diffText)
  /\ UNCHANGED <<pc, extra, runVars, parseVars, serverVars>>

\* any further line
ScanAny ==
  /\ pc = "scan"
  /\ diffText = <<>>
  /\ extra < MaxExtraLines
  /\ \E line \in DiffLines : Scan(line)
  /\ extra' = extra + 1
  /\ UNCHANGED <<pc, diffText, runVars, parseVars, serverVars>>

\* a further line of a conforming diff
ScanConforming ==
  /\ pc = "scan"
  /\ diffText = <<>>
  /\ extra < MaxExtraLines
  /\ \E line \in DiffLines : Conforms(scan, line) /\ Scan(line)
  /\ extra' = extra + 1
  /\ UNCHANGED <<pc, diffText, runVars, parseVars, serverVars>>

NoIssue ==
  [File |-> <<>>, Side |-> <<>>, OldLine |-> 0, NewLine |-> 0, Code |-> <<>>,
   Severity |-> <<>>, Category |-> <<>>, Problem |-> <<>>, Suggestion |-> <<>>]

NoLast == [issue |-> NoIssue, outcome |-> "none", info |-> NoInfo, target |-> 0]

\* the state before ProcessReview has run
RunIdle ==
  /\ provider = ProviderTypeGitHub
  /\ commentOnlyChanges = FALSE
  /\ positionMap = EmptyMap
  /\ existingComments = {}
  /\ nIssues = 0
  /\ issues = <<>>
  /\ unmatched = <<>>
  /\ posted = 0
  /\ calls = <<>>
  /\ requests = <<>>
  /\ last = NoLast
  /\ comments = <<>>

ScanIdle ==
  /\ extra = 0
  /\ cur = <<>>
  /\ scan = ScanStart
  /\ hunk = NoHunk
  /\ overlap = FALSE

\* the server's configuration as the examples of src/WEBHOOK_SETUP.md give it
DefaultCfg ==
  [vcsProvider |-> ProviderTypeGitHub, githubToken |-> "t-gh", gitlabToken |-> "t-gl",
   webhookToken |-> "", commentOnlyChanges |-> TRUE]

NoResponse == [handler |-> "none", status |-> 0]

\* no request has been served and no run has been started
ServerIdle ==
  /\ cfg = DefaultCfg
  /\ world = <<>>
  /\ served = 0
  /\ response = NoResponse
  /\ runs = <<>>

\* no review text is being parsed
ParseIdle ==
  /\ reviewContent = <<>>
  /\ reviewLines = <<>>
  /\ parsed = <<>>
  /\ row = <<>>
  /\ attempts = <<>>

InitIndex ==
  /\ pc = "scan"
  /\ diffText \in SeedDiffs
  /\ ScanIdle
  /\ RunIdle
  /\ ParseIdle
  /\ ServerIdle

\* buildDiffPositionMap on any diff text
SpecIndexAny == InitIndex /\ [][ScanSeed \/ ScanAny]_vars

\* buildDiffPositionMap on diff text of the conventional grammar
SpecIndex == InitIndex /\ [][ScanSeed \/ ScanConforming]_vars

\* body lines whose text begins like a header: the added line "++ x" and the
\* removed line "-- x", as the diff shows them
BodyPlusPlus == <<"+", "+", "+", " ", "x">>
BodyMinusMinus == <<"-", "-", "-", " ", "x">>

\* the lines that may follow inside a file section
HunkLines ==
  {Hunk10, Hunk20, BodyContext, BodyOldLine, BodyNewLine, BodyPlusPlus,
   BodyMinusMinus, <<"+">>, LineIndex, NoNewline, <<>>}

\* a further line of the file section
ScanHunkLine ==
  /\ pc = "scan"
  /\ diffText = <<>>
  /\ extra < MaxExtraLines
  /\ \E line \in HunkLines : Scan(line)
  /\ extra' = extra + 1
  /\ UNCHANGED <<pc, diffText, runVars, parseVars, serverVars>>

\* buildDiffPositionMap on the lines of file sections
SpecIndexHunk == InitIndex /\ [][ScanSeed \/ ScanHunkLine]_vars

(***************************************************************************)
(* ProcessReview in inline mode, from GetHeadSHA on (handler.go 173-198),  *)
(* and postInlineIssues (559-639).                                         *)
(***************************************************************************)
TextMajor == <<"m", "a", "j", "o", "r">>
TextBug   == <<"b", "u", "g">>
TextDesc  == <<"d", "e", "s", "c">>

Issue(file, side, oldLine, newLine, code) ==
  [File |-> file, Side |-> side, OldLine |-> oldLine, NewLine |-> newLine,
   Code |-> code, Severity |-> TextMajor, Category |-> TextBug,
   Problem |-> TextDesc, Suggestion |-> <<>>]

Sides == {<<>>, SideLeft, SideRight}

\* the issues a review may name: snippets that match one line, several lines
\* or none, an echoed marker, a marker alone, a truncated snippet, and bare
\* line numbers with and without a side
Issues ==
  {Issue(FileA, <<>>, 0, 11, code) :
     code \in {TextNewLine, TextOldLine, TextLine, TextContext, TextContext2,
               <<"+", "n", "e", "w", " ", " ", "l", "i", "n", "e">>,
               <<"-">>, TextNewLine \o ThreeDots}}
  \cup {Issue(FileA, SideLeft, 0, 11, TextLine),
        Issue(FileA, SideRight, 0, 11, TextOldLine)}
  \cup {Issue(FileA, <<>>, ln[1], ln[2], <<>>) :
     ln \in {<<0, 11>>, <<11, 0>>, <<10, 10>>, <<0, 99>>}}
  \cup {Issue(FileA, side, 11, 11, <<>>) : side \in {SideLeft, SideRight}}
  \cup {Issue(FileZ, <<>>, 0, 11, TextNewLine)}

\* a diff of two hunks in a.go and the deletion of b.go
TwoHunkDiff ==
  <<LineDiffGit, LineMinusA, LineFileA, Hunk10, BodyContext, BodyNewLine,
    Hunk20, BodyOldLine, BodyContext2, NoNewline,
    LineDiffGit, LineDevNull, HunkDel, BodyOldLine>>

\* the diffs a run reviews
RunDiffs == {ExampleDiff, TwoHunkDiff}

Comment(path, line) == [Path |-> path, Line |-> line]

\* what GetInlineComments may return
ExistingChoices ==
  {{}, {Comment(FileA, 11), Comment(FileA, 13), Comment(FileB, 11)}}

Init ==
  /\ pc = "head"
  /\ diffText \in RunDiffs
  /\ ScanIdle
  /\ provider \in {ProviderTypeGitHub, ProviderTypeGitLab}
  /\ commentOnlyChanges \in BOOLEAN
  /\ nIssues \in 0..MaxIssues
  /\ positionMap = EmptyMap
  /\ existingComments = {}
  /\ issues = <<>>
  /\ unmatched = <<>>
  /\ posted = 0
  /\ calls = <<>>
  /\ requests = <<>>
  /\ last = NoLast
  /\ comments = <<>>
  /\ ParseIdle
  /\ ServerIdle

\* handler.go 173-177: without the head commit the run ends, and no comment
\* is posted
GetHeadSHA ==
  /\ pc = "head"
  /\ \E err \in BOOLEAN : pc' = IF err THEN "failed" ELSE "index"
  /\ UNCHANGED <<scanVars, runVars, parseVars, serverVars>>

\* handler.go 179
BuildIndex ==
  /\ pc = "index"
  /\ scan' = ScanLines(ScanStart, diffText)
  /\ positionMap' = buildDiffPositionMap(diffText)
  /\ pc' = "fetch"
  /\ UNCHANGED <<diffText, extra, cur, hunk, overlap, provider, commentOnlyChanges,
                 existingComments, nIssues, issues, unmatched, posted, calls,
                 requests, last, comments, parseVars, serverVars>>

\* handler.go 561-565: the list fetched, or an empty list on an error
GetInlineComments ==
  /\ pc = "fetch"
  /\ \E fetched \in ExistingChoices, err \in BOOLEAN :
       existingComments' = IF err THEN {} ELSE fetched
  /\ pc' = "loop"
  /\ UNCHANGED <<scanVars, provider, commentOnlyChanges, positionMap, nIssues,
                 issues, unmatched, posted, calls, requests, last, comments, parseVars, serverVars>>

\* slip: the issue is skipped without being put on the fallback list
FallbackDropsIssue(issue, outcome, info) ==
  /\ last' = [issue |-> issue, outcome |-> outcome, info |-> info, target |-> 0]
  /\ UNCHANGED <<unmatched, posted, calls, requests>>

\* slip: the snippet as cleaned for the search is stored in the issue
FallbackCleanedCode(issue, outcome, info) ==
  /\ unmatched' = Append(unmatched, [issue EXCEPT !.Code = cleanCode(issue)])
  /\ last' = [issue |-> issue, outcome |-> outcome, info |-> info, target |-> 0]
  /\ UNCHANGED <<posted, calls, requests>>

\* unmatched = append(unmatched, issue); continue
Fallback(issue, outcome, info) ==
  /\ unmatched' = Append(unmatched, issue)
  /\ last' = [issue |-> issue, outcome |-> outcome, info |-> info, target |-> 0]
  /\ UNCHANGED <<posted, calls, requests>>

\* continue
Skip(issue, outcome, info, target) ==
  /\ last' = [issue |-> issue, outcome |-> outcome, info |-> info, target |-> target]
  /\ UNCHANGED <<unmatched, posted, calls, requests>>

\* slip: a failed post is not put on the fallback list
PostDropsFailed(issue, info, actual, net) ==
  LET position == LineParam(provider, info)
      res == IF provider = ProviderTypeGitLab
             THEN GitLabPostInlineComment(issue.File, actual.old, actual.new, net)
             ELSE GitHubPostInlineComment(issue.File, position, net)
  IN  /\ calls' = Append(calls, [file |-> issue.File, position |-> position,
                                 oldLine |-> actual.old, newLine |-> actual.new,
                                 type |-> info.Type, err |-> res.err])
      /\ requests' = requests \o res.sent
      /\ unmatched' = unmatched
      /\ posted' = IF res.err THEN posted ELSE posted + 1
      /\ last' = [issue |-> issue,
                  outcome |-> IF res.err THEN "post_failed" ELSE "posted",
                  info |-> info, target |-> TargetLine(actual)]

\* lines 618-634: the call of PostInlineComment and what follows from its result
Post(issue, info, actual, net) ==
  LET position == LineParam(provider, info)
      res == IF provider = ProviderTypeGitLab
             THEN GitLabPostInlineComment(issue.File, actual.old, actual.new, net)
             ELSE GitHubPostInlineComment(issue.File, position, net)
  IN  /\ calls' = Append(calls, [file |-> issue.File, position |-> position,
                                 oldLine |-> actual.old, newLine |-> actual.new,
                                 type |-> info.Type, err |-> res.err])
      /\ requests' = requests \o res.sent
      /\ unmatched' = IF res.err THEN Append(unmatched, issue) ELSE unmatched
      /\ posted' = IF res.err THEN posted ELSE posted + 1
      /\ last' = [issue |-> issue,
                  outcome |-> IF res.err THEN "post_failed" ELSE "posted",
                  info |-> info, target |-> TargetLine(actual)]

\* slip: the lines this run has posted to are taken as commented too
DedupeWithinRun(issue, info, actual) ==
  IF \/ isDuplicateComment(existingComments, issue.File, TargetLine(actual))
     \/ \E i \in 1..Len(calls) :
          /\ calls[i].file = issue.File
          /\ TargetLine([old |-> calls[i].oldLine, new |-> calls[i].newLine])
               = TargetLine(actual)
  THEN Skip(issue, "duplicate", info, TargetLine(actual))
  ELSE \E net \in Net : Post(issue, info, actual, net)

\* lines 609-616: the duplicate test against the comments fetched at the start
Dedupe(issue, info, actual) ==
  IF isDuplicateComment(existingComments, issue.File, TargetLine(actual))
  THEN Skip(issue, "duplicate", info, TargetLine(actual))
  ELSE \E net \in Net : Post(issue, info, actual, net)

\* the body of the loop over the issues (lines 571-634) for one issue
LoopBody(issue) ==
  /\ issues' = Append(issues, issue)
  /\ IF issue.File \notin DOMAIN positionMap
     THEN Fallback(issue, "no_file", NoInfo)
     ELSE LET fileLines == positionMap[issue.File]
              resolved  == resolveLineInfo(fileLines, issue)
              lineInfo  == resolved.info
              policy    == ContextPolicy(lineInfo.Type, commentOnlyChanges, provider)
          IN  IF ~resolved.ok THEN Fallback(issue, "unresolved", NoInfo)
              ELSE IF policy = "drop"
              THEN Skip(issue, "context_dropped", lineInfo, 0)
              ELSE IF policy = "fallback"
              THEN Fallback(issue, "context_fallback", lineInfo)
              ELSE \E actual \in ActualLines(fileLines, lineInfo) :
                     Dedupe(issue, lineInfo, actual)

\* one iteration of the loop over the issues (lines 570-635)
PostInlineIssue ==
  /\ pc = "loop"
  /\ Len(issues) < nIssues
  /\ \E issue \in Issues : LoopBody(issue)
  /\ UNCHANGED <<pc, scanVars, provider, commentOnlyChanges, positionMap,
                 existingComments, nIssues, comments, parseVars, serverVars>>

\* lines 637-638 and handler.go 183-198: the loop is over, unmatched is
\* returned, and the summary comment with the table of the unmatched issues
\* is posted; whether PostComment fails only changes what is logged
PostComment ==
  /\ pc = "loop"
  /\ Len(issues) = nIssues
  /\ comments' = Append(comments, [table |-> unmatched,
                                   text |-> buildUnmatchedIssuesTable(unmatched)])
  /\ pc' = "done"
  /\ UNCHANGED <<scanVars, provider, commentOnlyChanges, positionMap, existingComments,
                 nIssues, issues, unmatched, posted, calls, requests, last, parseVars, serverVars>>

Next ==
  \/ GetHeadSHA
  \/ BuildIndex
  \/ GetInlineComments
  \/ PostInlineIssue
  \/ PostComment

Spec == Init /\ [][Next]_vars

(***************************************************************************)
(* The same run on diff text that is no well-formed unified diff: a        *)
(* garbled hunk header, body lines without a hunk header, and the section  *)
(* of a deleted file ("+++ /dev/null").                                    *)
(***************************************************************************)
LineMinusZ == <<"-", "-", "-", " ", "a", "/">> \o FileZ

DeletedSection == <<LineDiffGit, LineMinusZ, LineDevNull, HunkDel, BodyOldLine, BodyNewLine>>

GarbledHeaderDiff ==
  <<LineDiffGit, LineMinusA, LineFileA, HunkBad, BodyContext, BodyOldLine, BodyNewLine>>
    \o DeletedSection

MissingHeaderDiff ==
  <<LineDiffGit, LineMinusA, LineFileA, BodyContext, BodyNewLine, NoNewline,
    LineDiffGit, LineIndex, LineFileB, Hunk10, BodyContext, BodyNewLine>>

GarbledDiffs == {GarbledHeaderDiff, MissingHeaderDiff, ExampleDiff \o DeletedSection}

InitGarbled ==
  /\ pc = "head"
  /\ diffText \in GarbledDiffs
  /\ ScanIdle
  /\ provider \in {ProviderTypeGitHub, ProviderTypeGitLab}
  /\ commentOnlyChanges \in BOOLEAN
  /\ nIssues \in 0..MaxIssues
  /\ positionMap = EmptyMap
  /\ existingComments = {}
  /\ issues = <<>>
  /\ unmatched = <<>>
  /\ posted = 0
  /\ calls = <<>>
  /\ requests = <<>>
  /\ last = NoLast
  /\ comments = <<>>
  /\ ParseIdle
  /\ ServerIdle

SpecGarbled == InitGarbled /\ [][Next]_vars

(***************************************************************************)
(* parseIssuesFromReview (handler.go 260-345), one line of the review text *)
(* per step.                                                               *)
(***************************************************************************)
FileGo == <<"f", "i", "l", "e", ".", "g", "o">>
TextFix == <<"f", "i", "x">>
Cell12 == <<"1", "2">>
Cell13 == <<"1", "3">>
Cell11 == <<"1", "1">>
CellDash == <<"-">>
CellCode == <<Backtick>> \o TextNewLine \o <<Backtick>>
CellsTail == <<TextMajor, TextBug, TextDesc, TextFix>>

\* rows of 9, 8, 7, 6 and 5 cells, of 10 cells, and of 9 columns of which the
\* side is left empty
Row9 == Row(<<FileA, Cell12, Cell13, SideRight, CellCode>> \o CellsTail)
Row8 == RowInBars(<<FileA, CellDash, Cell11, CellCode>> \o CellsTail)
Row7 == Row(<<FileA, Cell12, CellDash>> \o CellsTail)
Row6 == Row(<<FileGo, Cell12, CellDash, TextMajor, TextBug, TextDesc>>)
Row5Plus == Row(<<<<"+">> \o FileA \o <<":">> \o Cell12>> \o CellsTail)
Row5Minus == Row(<<<<"-", " ">> \o FileA \o <<":", "7">>>> \o CellsTail)
Row5 == RowInBars(<<FileA \o <<":">> \o Cell11>> \o CellsTail)
Row10 == Row(<<FileA, Cell12, Cell13, SideLeft, CellCode>> \o CellsTail \o <<TextDesc>>)
Row9NoSide == Row(<<FileA, Cell12, Cell13, <<" ">>, CellCode>> \o CellsTail)
RowFullWidth ==
  Join(<<FileA, Cell12, CellDash, TextMajor, TextBug, TextDesc>>, <<FullWidthBar>>)

\* lines that are no issue rows: prose, a row of 4 cells, the header and the
\* separator of a table, a row without a file, rows without a line number
LineProse == TextDesc
Row4 == Row(<<FileA, Cell12, TextMajor, TextBug>>)
RowHeader == RowInBars(<<HeaderKeyword, TextDesc, TextDesc, TextMajor, TextBug, TextDesc>>)
RowSeparator == RowInBars(<<Dashes, Dashes, Dashes, Dashes, Dashes, Dashes>>)
RowNoFile == Row(<<<<Backtick, Backtick>>, Cell12, Cell13, TextMajor, TextBug, TextDesc>>)
RowNoLine == Row(<<FileA, CellDash, <<"x">>, TextMajor, TextBug, TextDesc>>)
RowZeroLine == Row(<<FileA, <<"0">>, <<"-", "3">>, TextMajor, TextBug, TextDesc>>)
Row5NoFile == Row(<<<<":">> \o Cell12>> \o CellsTail)
Row5ZeroLine == Row(<<FileA \o <<":", "0">>>> \o CellsTail)

\* the lines a review text is made of
ReportLines ==
  {Row9, Row8, Row7, Row6, Row5Plus, Row5Minus, Row5, Row10, Row9NoSide,
   RowFullWidth, LineProse, Row4, RowHeader, RowSeparator, RowNoFile, RowNoLine,
   RowZeroLine, Row5NoFile, Row5ZeroLine, <<>>}

\* the review texts of up to MaxRows lines
ReviewTexts ==
  UNION {{Join(lines, <<Newline>>) : lines \in [1..n -> ReportLines]} : n \in 0..MaxRows}

InitParse ==
  /\ pc = "parse"
  /\ reviewContent \in ReviewTexts
  /\ reviewLines = Split(reviewContent, Newline)
  /\ parsed = <<>>
  /\ row = <<>>
  /\ attempts = <<>>
  /\ diffText = <<>>
  /\ ScanIdle
  /\ RunIdle
  /\ ServerIdle

\* one iteration of the loop of lines 264-342
ParseLine ==
  /\ pc = "parse"
  /\ reviewLines # <<>>
  /\ row' = Head(reviewLines)
  /\ parsed' = parsed \o parseReviewLine(Head(reviewLines))
  /\ reviewLines' = Tail(reviewLines)
  /\ UNCHANGED <<pc, reviewContent, attempts, scanVars, runVars, serverVars>>

SpecParse == InitParse /\ [][ParseLine]_vars

(***************************************************************************)
(* ProcessReview from the choice of the review mode to the summary comment *)
(* (handler.go 136-198): the review is obtained by the Claude CLI or by    *)
(* the API, its issues are extracted and dispatched.                       *)
(***************************************************************************)
\* the steps of processWithClaudeCLI that may fail (handler.go 1004-1126)
ClaudeCLISteps ==
  {"GetPRInfo", "GetBranchInfo", "GetCloneURL", "BuildCloneURL", "CloneAndCheckout",
   "GetDiff", "ReviewCodeInRepo", "result.Success"}

\* the steps of processWithAPI that may fail (handler.go 958-1001)
APISteps == {"GetPRInfo", "GetDiff", "ReviewCode"}

\* a row on a file the diff does not have, whose snippet echoes the marker
RowMarked ==
  Row(<<FileGo, Cell12, Cell13, SideRight,
        <<Backtick, "+">> \o TextNewLine \o <<Backtick>>>> \o CellsTail)

\* the lines of the reviews: rows on line 13 and on line 11 of a.go, with and
\* without a snippet, a row on a file the diff does not have, and prose
ReviewRows == {Row9, Row8, Row5, RowMarked, LineProse}

\* the reviews of up to MaxRows lines
Reviews ==
  UNION {{Join(lines, <<Newline>>) : lines \in [1..n -> ReviewRows]} : n \in 0..MaxRows}

InitReview ==
  /\ pc \in {"claude_cli", "api"}
  /\ diffText = <<>>
  /\ ScanIdle
  /\ provider \in {ProviderTypeGitHub, ProviderTypeGitLab}
  /\ commentOnlyChanges \in BOOLEAN
  /\ nIssues = 0
  /\ positionMap = EmptyMap
  /\ existingComments = {}
  /\ issues = <<>>
  /\ unmatched = <<>>
  /\ posted = 0
  /\ calls = <<>>
  /\ requests = <<>>
  /\ last = NoLast
  /\ comments = <<>>
  /\ ParseIdle
  /\ ServerIdle

\* the attempt returned (reviewContent, diffText, nil): lines 168-171 choose
\* between the inline mode and the plain comment
Reviewed(mode) ==
  /\ \E content \in Reviews : reviewContent' = content
  /\ diffText' = ExampleDiff
  /\ attempts' = Append(attempts, [mode |-> mode, failed |-> "none"])
  /\ \E inlineMode \in BOOLEAN : pc' = IF inlineMode THEN "head" ELSE "plain"

\* the attempt returned an error at the step
AttemptFailed(mode, step, then) ==
  /\ attempts' = Append(attempts, [mode |-> mode, failed |-> step])
  /\ pc' = then
  /\ UNCHANGED <<reviewContent, diffText>>

\* slip: the API mode is tried again and again after a failure
ProcessWithAPIRetrying ==
  /\ pc = "api"
  /\ Len(attempts) < MaxRows + 1
  /\ \/ Reviewed("api")
     \/ \E step \in APISteps : AttemptFailed("api", step, "api")
  /\ UNCHANGED <<extra, cur, scan, hunk, overlap, runVars, reviewLines, parsed, row,
                 serverVars>>

\* lines 141-156: the Claude CLI mode; a failure at any step leads to the
\* API mode
ProcessWithClaudeCLI ==
  /\ pc = "claude_cli"
  /\ \/ Reviewed("claude_cli")
     \/ \E step \in ClaudeCLISteps : AttemptFailed("claude_cli", step, "api")
  /\ UNCHANGED <<extra, cur, scan, hunk, overlap, runVars, reviewLines, parsed, row,
                 serverVars>>

\* lines 148-153 and 157-165: the API mode, configured or as the fallback; a
\* failure ends the run
ProcessWithAPI ==
  /\ pc = "api"
  /\ \/ Reviewed("api")
     \/ \E step \in APISteps : AttemptFailed("api", step, "failed")
  /\ UNCHANGED <<extra, cur, scan, hunk, overlap, runVars, reviewLines, parsed, row,
                 serverVars>>

\* lines 179-180: buildDiffPositionMap and parseIssuesFromReview
ParseReview ==
  /\ pc = "index"
  /\ scan' = ScanLines(ScanStart, diffText)
  /\ positionMap' = buildDiffPositionMap(diffText)
  /\ parsed' = parseIssuesFromReview(reviewContent)
  /\ nIssues' = Len(parsed')
  /\ pc' = "fetch"
  /\ UNCHANGED <<diffText, extra, cur, hunk, overlap, provider, commentOnlyChanges,
                 existingComments, issues, unmatched, posted, calls, requests, last,
                 comments, reviewContent, reviewLines, row, attempts, serverVars>>

\* one iteration of the loop of postInlineIssues over the extracted issues
PostParsedIssue ==
  /\ pc = "loop"
  /\ Len(issues) < nIssues
  /\ LoopBody(parsed[Len(issues) + 1])
  /\ UNCHANGED <<pc, scanVars, provider, commentOnlyChanges, positionMap,
                 existingComments, nIssues, comments, parseVars, serverVars>>

\* lines 169 and 195 without the inline mode: the review itself is the comment
PostPlainComment ==
  /\ pc = "plain"
  /\ comments' = Append(comments, [table |-> <<>>,
                                   text |-> Split(reviewContent, Newline)])
  /\ pc' = "done"
  /\ UNCHANGED <<scanVars, provider, commentOnlyChanges, positionMap, existingComments,
                 nIssues, issues, unmatched, posted, calls, requests, last, parseVars,
                 serverVars>>

NextReview ==
  \/ ProcessWithClaudeCLI
  \/ ProcessWithAPI
  \/ GetHeadSHA
  \/ ParseReview
  \/ GetInlineComments
  \/ PostParsedIssue
  \/ PostComment
  \/ PostPlainComment

SpecReview == InitReview /\ [][NextReview]_vars

(***************************************************************************)
(* resolveLineInfo (handler.go 640-721) applied to issues that name line   *)
(* numbers and no snippet, over the index of a reviewed diff.              *)
(***************************************************************************)
\* the line numbers an issue may name: none, lines of the diff on both
\* sides, a line only the new side has, and a line outside the diff
LineNumbers == {0, 10, 11, 13, 99}

\* issues without a snippet, or with a snippet that is only a diff marker
LineNumberIssues ==
  {Issue(FileA, side, old, new, code) :
     side \in Sides, old \in LineNumbers, new \in LineNumbers,
     code \in {<<>>, <<"-">>}}

InitResolve ==
  /\ pc = "resolve"
  /\ diffText \in RunDiffs
  /\ positionMap = buildDiffPositionMap(diffText)
  /\ ScanIdle
  /\ provider \in {ProviderTypeGitHub, ProviderTypeGitLab}
  /\ commentOnlyChanges = FALSE
  /\ nIssues = 1
  /\ existingComments = {}
  /\ issues = <<>>
  /\ unmatched = <<>>
  /\ posted = 0
  /\ calls = <<>>
  /\ requests = <<>>
  /\ last = NoLast
  /\ comments = <<>>
  /\ ParseIdle
  /\ ServerIdle

\* handler.go 577: lineInfo, ok := resolveLineInfo(fileLines, issue)
ResolveIssue ==
  /\ pc = "resolve"
  /\ \E issue \in LineNumberIssues :
       LET resolved == resolveLineInfo(positionMap[issue.File], issue)
       IN  /\ issues' = Append(issues, issue)
           /\ last' = [issue |-> issue,
                       outcome |-> IF resolved.ok THEN "resolved" ELSE "unresolved",
                       info |-> resolved.info, target |-> 0]
  /\ pc' = "resolved"
  /\ UNCHANGED <<scanVars, diffText, provider, commentOnlyChanges, positionMap,
                 existingComments, nIssues, unmatched, posted, calls, requests,
                 comments, parseVars, serverVars>>

SpecResolve == InitResolve /\ [][ResolveIssue]_vars

(***************************************************************************)
(* resolveLineInfo applied to issues that carry a snippet, with and        *)
(* without a side hint (handler.go 640-692).                               *)
(***************************************************************************)
TextNothing == <<"n", "o", "t", "h", "i", "n", "g">>

\* snippets found in one map only, in both, in several lines, or nowhere
SnippetIssues ==
  {Issue(FileA, side, 0, new, code) :
     side \in Sides, new \in {0, 11},
     code \in {TextNewLine, TextOldLine, TextLine, TextContext, TextContext2,
               TextAdded2, TextNothing, <<"+">> \o TextNewLine}}

\* handler.go 577 for an issue with a snippet
ResolveSnippetIssue ==
  /\ pc = "resolve"
  /\ \E issue \in SnippetIssues :
       LET resolved == resolveLineInfo(positionMap[issue.File], issue)
       IN  /\ issues' = Append(issues, issue)
           /\ last' = [issue |-> issue,
                       outcome |-> IF resolved.ok THEN "resolved" ELSE "unresolved",
                       info |-> resolved.info, target |-> 0]
  /\ pc' = "matched"
  /\ UNCHANGED <<scanVars, diffText, provider, commentOnlyChanges, positionMap,
                 existingComments, nIssues, unmatched, posted, calls, requests,
                 comments, parseVars, serverVars>>

SpecSnippet == InitResolve /\ [][ResolveSnippetIssue]_vars

(***************************************************************************)
(* The HTTP handlers HandleReview (handler.go 57-102) and                  *)
(* HandleGitLabWebhook (webhook_gitlab.go 34-116), and the runs they start *)
(* with `go ProcessReview(...)`.  A run is a record of the run's local     *)
(* variables; world[r] is what the collaborators answer to run r: the      *)
(* diff, the issues of the review, the inline comments fetched, and the    *)
(* network outcome of each PostInlineComment call in turn.                 *)
(***************************************************************************)
MaxRequests == 2

StatusOK == 200
StatusAccepted == 202
StatusBadRequest == 400
StatusUnauthorized == 401
StatusMethodNotAllowed == 405

MethodPost == "POST"
Methods == {MethodPost, "GET"}

RepoName == <<"g", "/", "p">>
PRNumber == 7
ProjectID == 42

\* the body of a request is unreadable, is not JSON, or is a JSON object
BodyUnreadable == [json |-> FALSE, readable |-> FALSE]
BodyNotJSON == [json |-> FALSE, readable |-> TRUE]

\* requests to /review: the provider field may be absent or name a provider
\* the service does not know; the token header may be absent
ReviewRequests ==
  {[method |-> m, token |-> t, body |-> b] :
     m \in Methods, t \in {"", "t-req"},
     b \in {BodyNotJSON}
           \cup {[json |-> TRUE, readable |-> TRUE, provider |-> pr] :
                   pr \in {"", ProviderTypeGitHub, ProviderTypeGitLab, "gitea"}}}

Reject(status) == [status |-> status, start |-> FALSE]

Accept(repo, number, providerType, token) ==
  [status |-> StatusAccepted, start |-> TRUE, repo |-> repo, number |-> number,
   provider |-> providerType, token |-> token]

\* slip: the configured provider wins over the provider of the request
HandleReviewResultConfigFirst(req, config) ==
  IF req.method # MethodPost THEN Reject(StatusMethodNotAllowed)
  ELSE IF ~req.body.json THEN Reject(StatusBadRequest)
  ELSE LET providerType == config.vcsProvider
       IN  IF providerType = ProviderTypeGitHub
           THEN Accept(RepoName, PRNumber, providerType,
                       IF req.token = "" THEN config.githubToken ELSE req.token)
           ELSE Accept(RepoName, PRNumber, providerType,
                       IF req.token = "" THEN config.gitlabToken ELSE req.token)

\* handler.go 58-101: the status answered and the run started, if any
HandleReviewResult(req, config) ==
  IF req.method # MethodPost THEN Reject(StatusMethodNotAllowed)
  ELSE IF ~req.body.json THEN Reject(StatusBadRequest)
  ELSE LET providerType == IF req.body.provider = "" THEN config.vcsProvider
                           ELSE req.body.provider
       IN  IF providerType = ProviderTypeGitHub
           THEN Accept(RepoName, PRNumber, providerType,
                       IF req.token = "" THEN config.githubToken ELSE req.token)
           ELSE IF providerType = ProviderTypeGitLab
           THEN Accept(RepoName, PRNumber, providerType,
                       IF req.token = "" THEN config.gitlabToken ELSE req.token)
           ELSE Reject(StatusBadRequest)

EventMergeRequest == "Merge Request Hook"
KindMergeRequest == "merge_request"

\* webhook deliveries: the payload names its object kind, the action, and the
\* project by path (which may be empty) and id
WebhookRequests ==
  {[method |-> m, token |-> t, event |-> e, body |-> b] :
     m \in Methods, t \in {"", "secret"}, e \in {EventMergeRequest, "Push Hook"},
     b \in {BodyUnreadable, BodyNotJSON}
           \cup {[json |-> TRUE, readable |-> TRUE, kind |-> k, action |-> a,
                  path |-> RepoName] :
                   k \in {KindMergeRequest, "push"},
                   a \in {"open", "update", "reopen", "close"}}
           \cup {[json |-> TRUE, readable |-> TRUE, kind |-> KindMergeRequest,
                  action |-> "open", path |-> <<>>]}}

\* slip: every action of a merge request triggers a review
HandleGitLabWebhookResultAnyAction(req, config) ==
  IF req.method # MethodPost THEN Reject(StatusMethodNotAllowed)
  ELSE IF config.webhookToken # "" /\ req.token # config.webhookToken
  THEN Reject(StatusUnauthorized)
  ELSE IF ~req.body.readable THEN Reject(StatusBadRequest)
  ELSE IF req.event # EventMergeRequest THEN Reject(StatusOK)
  ELSE IF ~req.body.json THEN Reject(StatusBadRequest)
  ELSE IF req.body.kind # KindMergeRequest THEN Reject(StatusOK)
  ELSE Accept(IF req.body.path = <<>> THEN Itoa(ProjectID) ELSE req.body.path,
              PRNumber, ProviderTypeGitLab, config.gitlabToken)

\* webhook_gitlab.go 35-115: the status answered and the run started, if any
HandleGitLabWebhookResult(req, config) ==
  IF req.method # MethodPost THEN Reject(StatusMethodNotAllowed)
  ELSE IF config.webhookToken # "" /\ req.token # config.webhookToken
  THEN Reject(StatusUnauthorized)
  ELSE IF ~req.body.readable THEN Reject(StatusBadRequest)
  ELSE IF req.event # EventMergeRequest THEN Reject(StatusOK)
  ELSE IF ~req.body.json THEN Reject(StatusBadRequest)
  ELSE IF req.body.kind # KindMergeRequest THEN Reject(StatusOK)
  ELSE IF req.body.action \notin {"open", "update", "reopen"} THEN Reject(StatusOK)
  ELSE Accept(IF req.body.path = <<>> THEN Itoa(ProjectID) ELSE req.body.path,
              PRNumber, ProviderTypeGitLab, config.gitlabToken)

\* the local variables of a run that has just been started
NewRun(repo, number, providerType, token) ==
  [repo |-> repo, number |-> number, provider |-> providerType, token |-> token,
   pc |-> "started", positionMap |-> EmptyMap, existingComments |-> {},
   handled |-> 0, unmatched |-> <<>>, calls |-> <<>>]

\* go ProcessReview(repo, number, providerType, token)
Go(result) ==
  runs' = IF result.start
          THEN Append(runs, NewRun(result.repo, result.number, result.provider,
                                   result.token))
          ELSE runs

\* unmatched = append(unmatched, issue); continue
RunFallback(run, issue) ==
  [run EXCEPT !.unmatched = Append(@, issue), !.handled = @ + 1]

\* continue
RunSkip(run) == [run EXCEPT !.handled = @ + 1]

\* lines 618-634 for a run
RunPost(run, issue, info, actual, net) ==
  LET position == LineParam(run.provider, info)
      res == IF run.provider = ProviderTypeGitLab
             THEN GitLabPostInlineComment(issue.File, actual.old, actual.new, net)
             ELSE GitHubPostInlineComment(issue.File, position, net)
  IN  [run EXCEPT !.calls = Append(@, [file |-> issue.File, position |-> position,
                                       oldLine |-> actual.old, newLine |-> actual.new,
                                       type |-> info.Type, err |-> res.err]),
                  !.unmatched = IF res.err THEN Append(@, issue) ELSE @,
                  !.handled = @ + 1]

\* one iteration of the loop of postInlineIssues (lines 570-635) on the
\* local variables of a run: the states the run may be in after it
IssueStep(run, answers, onlyChanges) ==
  LET issue == answers.issues[run.handled + 1]
  IN  IF issue.File \notin DOMAIN run.positionMap THEN {RunFallback(run, issue)}
      ELSE LET fileLines == run.positionMap[issue.File]
               resolved  == resolveLineInfo(fileLines, issue)
               lineInfo  == resolved.info
               policy    == ContextPolicy(lineInfo.Type, onlyChanges, run.provider)
           IN  IF ~resolved.ok THEN {RunFallback(run, issue)}
               ELSE IF policy = "drop" THEN {RunSkip(run)}
               ELSE IF policy = "fallback" THEN {RunFallback(run, issue)}
               ELSE {IF isDuplicateComment(run.existingComments, issue.File,
                                           TargetLine(actual))
                     THEN RunSkip(run)
                     ELSE RunPost(run, issue, lineInfo, actual,
                                  answers.nets[Len(run.calls) + 1]) :
                       actual \in ActualLines(fileLines, lineInfo)}

\* handler.go 179 for a run
RunIndexed(run, answers) ==
  [run EXCEPT !.positionMap = buildDiffPositionMap(answers.diff), !.pc = "fetch"]

\* handler.go 561-565 for a run
RunFetched(run, answers) ==
  [run EXCEPT !.existingComments = answers.fetched, !.pc = "loop"]

RECURSIVE RunLoop(_, _, _)
\* the loop of postInlineIssues run to its end without interruption
RunLoop(run, answers, onlyChanges) ==
  IF run.handled = Len(answers.issues) THEN {[run EXCEPT !.pc = "done"]}
  ELSE UNION {RunLoop(next, answers, onlyChanges) :
                next \in IssueStep(run, answers, onlyChanges)}

\* a run on its own, from buildDiffPositionMap to the return of
\* postInlineIssues: the states it may end in
RunAlone(run, answers, onlyChanges) ==
  RunLoop(RunFetched(RunIndexed(run, answers), answers), answers, onlyChanges)

\* POST /review
HandleReview ==
  /\ pc = "serve"
  /\ served < MaxRequests
  /\ \E req \in ReviewRequests :
       LET result == HandleReviewResult(req, cfg)
       IN  /\ response' = [handler |-> "review", req |-> req, status |-> result.status]
           /\ Go(result)
  /\ served' = served + 1
  /\ UNCHANGED <<pc, cfg, world, scanVars, runVars, parseVars>>

\* POST /webhook, registered when the configured provider is GitLab
\* (main.go)
HandleGitLabWebhook ==
  /\ pc = "serve"
  /\ cfg.vcsProvider = ProviderTypeGitLab
  /\ served < MaxRequests
  /\ \E req \in WebhookRequests :
       LET result == HandleGitLabWebhookResult(req, cfg)
       IN  /\ response' = [handler |-> "webhook", req |-> req, status |-> result.status]
           /\ Go(result)
  /\ served' = served + 1
  /\ UNCHANGED <<pc, cfg, world, scanVars, runVars, parseVars>>

\* a started run proceeds to its end while the server goes on serving
ProcessReview ==
  /\ pc = "serve"
  /\ \E r \in DOMAIN runs :
       /\ runs[r].pc = "started"
       /\ \E finished \in RunAlone(runs[r], world[r], cfg.commentOnlyChanges) :
            runs' = [runs EXCEPT ![r] = finished]
  /\ UNCHANGED <<pc, cfg, world, served, response, scanVars, runVars, parseVars>>

\* the issues of a review: one on an added line, one on a context line, one
\* in a file the diff does not have
IssueOnAdded == Issue(FileA, <<>>, 0, 11, TextNewLine)
IssueOnContext == Issue(FileA, <<>>, 0, 13, TextContext2)
IssueElsewhere == Issue(FileZ, <<>>, 0, 11, TextNewLine)

\* what the collaborators may answer to a run
Answers ==
  {[diff |-> ExampleDiff, issues |-> list, fetched |-> fetched, nets |-> nets] :
     list \in {<<IssueOnAdded, IssueOnContext>>, <<IssueElsewhere, IssueOnAdded>>,
               <<IssueOnContext>>},
     fetched \in ExistingChoices,
     nets \in {<<"ok", "ok">>, <<"refused", "ok">>}}

ServerAnswers ==
  [diff |-> ExampleDiff, issues |-> <<IssueOnAdded, IssueElsewhere>>,
   fetched |-> {}, nets |-> <<"ok", "ok">>]

Configs ==
  {[vcsProvider |-> v, githubToken |-> "t-gh", gitlabToken |-> "t-gl",
    webhookToken |-> w, commentOnlyChanges |-> c] :
     v \in {ProviderTypeGitHub, ProviderTypeGitLab}, w \in {"", "secret"},
     c \in BOOLEAN}

\* the server after main has loaded the configuration and registered the
\* handlers
InitServer ==
  /\ pc = "serve"
  /\ cfg \in {c \in Configs : c.commentOnlyChanges}
  /\ world = [r \in 1..MaxRequests |-> ServerAnswers]
  /\ served = 0
  /\ response = NoResponse
  /\ runs = <<>>
  /\ diffText = <<>>
  /\ ScanIdle
  /\ RunIdle
  /\ ParseIdle

NextServer ==
  \/ HandleReview
  \/ HandleGitLabWebhook
  \/ ProcessReview

SpecServer == InitServer /\ [][NextServer]_vars

(***************************************************************************)
(* Two runs started by two accepted requests, each stepping through        *)
(* ProcessReview (handler.go 179-181) and postInlineIssues (559-639) on    *)
(* its own local variables, in any interleaving.                           *)
(***************************************************************************)
TwoRuns == {1, 2}

InitConcurrent ==
  /\ pc = "serve"
  /\ cfg \in {c \in Configs : c.webhookToken = ""}
  /\ world \in [TwoRuns -> Answers]
  /\ served = 2
  /\ \E p1 \in {ProviderTypeGitHub, ProviderTypeGitLab} :
       /\ runs = <<NewRun(RepoName, PRNumber, p1, "t-req"),
                   NewRun(RepoName, PRNumber, cfg.vcsProvider,
                          IF cfg.vcsProvider = ProviderTypeGitHub
                          THEN cfg.githubToken ELSE cfg.gitlabToken)>>
  /\ response = [handler |-> "review",
                 req |-> [method |-> MethodPost, token |-> "",
                          body |-> [json |-> TRUE, readable |-> TRUE, provider |-> ""]],
                 status |-> StatusAccepted]
  /\ diffText = <<>>
  /\ ScanIdle
  /\ RunIdle
  /\ ParseIdle

\* the step of a run changes nothing but the run's own record
RunFrame ==
  /\ pc = "serve"
  /\ UNCHANGED <<pc, cfg, world, served, response, scanVars, runVars, parseVars>>

\* handler.go 179
RunBuildIndex(r) ==
  /\ runs[r].pc = "started"
  /\ runs' = [runs EXCEPT ![r] = RunIndexed(runs[r], world[r])]
  /\ RunFrame

\* slip: every run uses the list the first run was given
RunGetInlineCommentsOfFirstRun(r) ==
  /\ runs[r].pc = "fetch"
  /\ runs' = [runs EXCEPT ![r] = RunFetched(runs[r], world[1])]
  /\ RunFrame

\* handler.go 561-565
RunGetInlineComments(r) ==
  /\ runs[r].pc = "fetch"
  /\ runs' = [runs EXCEPT ![r] = RunFetched(runs[r], world[r])]
  /\ RunFrame

\* slip: the fallback list is one list that all runs append to
RunPostInlineIssueSharedList(r) ==
  /\ runs[r].pc = "loop"
  /\ runs[r].handled < Len(world[r].issues)
  /\ \E next \in IssueStep(runs[r], world[r], cfg.commentOnlyChanges) :
       LET added == SubSeq(next.unmatched, Len(runs[r].unmatched) + 1,
                           Len(next.unmatched))
           own   == [runs EXCEPT ![r] = [next EXCEPT !.unmatched = runs[r].unmatched]]
       IN  runs' = [own EXCEPT ![1] = [@ EXCEPT !.unmatched = @ \o added]]
  /\ RunFrame

\* one iteration of the loop of lines 570-635
RunPostInlineIssue(r) ==
  /\ runs[r].pc = "loop"
  /\ runs[r].handled < Len(world[r].issues)
  /\ \E next \in IssueStep(runs[r], world[r], cfg.commentOnlyChanges) :
       runs' = [runs EXCEPT ![r] = next]
  /\ RunFrame

\* lines 637-638: return unmatched
RunReturn(r) ==
  /\ runs[r].pc = "loop"
  /\ runs[r].handled = Len(world[r].issues)
  /\ runs' = [runs EXCEPT ![r] = [@ EXCEPT !.pc = "done"]]
  /\ RunFrame

NextConcurrent ==
  \/ \E r \in TwoRuns : RunBuildIndex(r)
  \/ \E r \in TwoRuns : RunGetInlineComments(r)
  \/ \E r \in TwoRuns : RunPostInlineIssue(r)
  \/ \E r \in TwoRuns : RunReturn(r)

SpecConcurrent == InitConcurrent /\ [][NextConcurrent]_vars

(***************************************************************************)
(* The indexer's properties.                                               *)
(***************************************************************************)
Count(seq, set) == Cardinality({i \in 1..Len(seq) : seq[i] \in set})

\* C7: within one file section the first indexed line gets position 1 and
\* every following indexed line the previous position plus 1, also across
\* "@@" hunk headers; the counter returns to 0 only at a file header line
\* ("diff --git ", "+++ ").
C7_PositionsContinueAcrossHunks ==
  [][/\ IsIndexed(scan, cur') =>
          /\ scan'.position = scan.position + 1
          /\ LET f == scan'.lineMap[scan'.currentFile]
             IN  /\ Head(cur') \in {"-", " "} =>
                      f.Old[scan.oldLine].Position = scan.position + 1
                 /\ Head(cur') \in {"+", " "} =>
                      f.New[scan.newLine].Position = scan.position + 1
     /\ IsFileHeader(cur') => scan'.position = 0
     /\ (~IsIndexed(scan, cur') /\ ~IsFileHeader(cur')) =>
          scan'.position = scan.position
     /\ scan.lineMap = EmptyMap => scan.position = 0
    ]_vars

\* C7 witness: a line was indexed in a second hunk of the same section and
\* its position continues the first hunk's.
C7_Witness ==
  /\ hunk.header = Hunk20
  /\ hunk.body # <<>>
  /\ scan.position > Len(hunk.body)

\* C8: a Context line is in Old and in New with the same position and
\* content; an Added line is in New only, a Removed line in Old only.
C8_KindsPerMap ==
  \A file \in DOMAIN scan.lineMap :
    LET f == scan.lineMap[file]
    IN  /\ \A n \in DOMAIN f.Old : f.Old[n].Type \in {"-", " "}
        /\ \A n \in DOMAIN f.New : f.New[n].Type \in {"+", " "}
        /\ \A n \in DOMAIN f.Old :
             f.Old[n].Type = " " => \E m \in DOMAIN f.New : f.New[m] = f.Old[n]
        /\ \A m \in DOMAIN f.New :
             f.New[m].Type = " " => \E n \in DOMAIN f.Old : f.Old[n] = f.New[m]
        /\ \A n \in DOMAIN f.Old :
             f.Old[n].Type = "-" =>
               \A m \in DOMAIN f.New : f.New[m].Position # f.Old[n].Position
        /\ \A m \in DOMAIN f.New :
             f.New[m].Type = "+" =>
               \A n \in DOMAIN f.Old : f.Old[n].Position # f.New[m].Position

\* C8 witness: one file's index holds a Context, an Added and a Removed line.
C8_Witness ==
  \E file \in DOMAIN scan.lineMap :
    LET f == scan.lineMap[file]
    IN  /\ \E n \in DOMAIN f.Old : f.Old[n].Type = " "
        /\ \E n \in DOMAIN f.Old : f.Old[n].Type = "-"
        /\ \E m \in DOMAIN f.New : f.New[m].Type = "+"

\* the ranges the hunk headers of the model declare
HunkStarts(header) ==
  IF header = Hunk10 THEN <<10, 10>>
  ELSE IF header = Hunk20 THEN <<20, 21>>
  ELSE IF header = HunkNew THEN <<0, 1>>
  ELSE <<1, 0>>

\* the index of the worked example
ExampleOld ==
  (10 :> diffLineInfo(1, TextContext, " ")) @@ (11 :> diffLineInfo(2, TextOldLine, "-"))
  @@ (12 :> diffLineInfo(5, TextContext2, " "))

ExampleNew ==
  (10 :> diffLineInfo(1, TextContext, " ")) @@ (11 :> diffLineInfo(3, TextNewLine, "+"))
  @@ (12 :> diffLineInfo(4, TextAdded2, "+")) @@ (13 :> diffLineInfo(5, TextContext2, " "))

ExampleScanned == diffText = <<>> /\ extra = 0 /\ cur = BodyContext2

\* C9: a body line is recorded at old line = oldStart + the number of
\* Removed/Context lines before it in the hunk, and at new line = newStart +
\* the number of Added/Context lines before it; the worked example
\* "@@ -10,3 +10,4 @@" yields positions 1..5, New[11] = "new line" at 3,
\* Old[11] = "old line" at 2, New[10] = Old[10] = "context" at 1.
C9_LineNumbersFromHunkStart ==
  [][/\ (IsIndexed(scan, cur') /\ hunk.header \in {Hunk10, Hunk20, HunkNew, HunkDel}) =>
          LET st == HunkStarts(hunk.header)
              o  == st[1] + Count(hunk.body, {"-", " "})
              n  == st[2] + Count(hunk.body, {"+", " "})
              f  == scan'.lineMap[scan.currentFile]
          IN  /\ Head(cur') \in {"-", " "} =>
                   /\ o \in DOMAIN f.Old
                   /\ f.Old[o] = diffLineInfo(scan'.position, Tail(cur'), Head(cur'))
              /\ Head(cur') \in {"+", " "} =>
                   /\ n \in DOMAIN f.New
                   /\ f.New[n] = diffLineInfo(scan'.position, Tail(cur'), Head(cur'))
     /\ ExampleScanned' =>
          scan'.lineMap = (FileA :> [Old |-> ExampleOld, New |-> ExampleNew])
    ]_vars

\* C9 witness: the worked example has been scanned to its last line.
C9_Witness == ExampleScanned /\ scan.position = 5 /\ hunk.header = Hunk10

(***************************************************************************)
(* The resolver's and the dispatcher's properties.                         *)
(***************************************************************************)
InSeq(seq, x) == \E i \in 1..Len(seq) : seq[i] = x

\* the last iteration resolved its issue to a line of the index
LastResolved ==
  last.outcome \in {"context_dropped", "context_fallback", "duplicate",
                    "posted", "post_failed"}

\* the issue names an indexed file and resolves to a Context line
ResolvesToContext(issue) ==
  /\ issue.File \in DOMAIN positionMap
  /\ resolveLineInfo(positionMap[issue.File], issue).ok
  /\ resolveLineInfo(positionMap[issue.File], issue).info.Type = " "

\* C1: with comment_only_changes on, or on GitLab, no PostInlineComment call
\* is made for an issue resolved to a Context line.
C1_NoPostOnContextLine ==
  (commentOnlyChanges \/ provider = ProviderTypeGitLab) =>
    \A i \in 1..Len(calls) : calls[i].type # " "

\* C1 witness: an issue resolved to a Context line was withheld while another
\* issue of the run was posted.
C1_Witness ==
  /\ last.info.Type = " "
  /\ last.outcome \in {"context_dropped", "context_fallback"}
  /\ calls # <<>>

\* the iteration just made took an issue that resolves to a Context line and
\* withheld it from inline posting, by the flag or because of the provider
WithheldContext ==
  /\ issues' # issues
  /\ ResolvesToContext(last'.issue)
  /\ commentOnlyChanges \/ provider = ProviderTypeGitLab

\* the fallback list only grows
FallbackKept ==
  /\ Len(unmatched') >= Len(unmatched)
  /\ SubSeq(unmatched', 1, Len(unmatched)) = unmatched

\* C2 as claimed: every issue resolved to a Context line and withheld, by the
\* flag or because the provider is GitLab, is put on the unmatched list (and
\* stays on it until the list is returned).
C2_WithheldContextInFallback ==
  [][/\ FallbackKept
     /\ WithheldContext => InSeq(unmatched', last'.issue)]_vars

\* C2 amended: an issue resolved to a Context line is put on the unmatched
\* list (and stays on it until the list is returned) when it is withheld
\* because the provider is GitLab and comment_only_changes is off; with
\* comment_only_changes on (either provider) it is dropped and nothing is
\* added to the unmatched list for it.
C2_ContextFallbackOnlyWithoutFlag ==
  [][/\ FallbackKept
     /\ WithheldContext =>
          /\ calls' = calls
          /\ commentOnlyChanges => unmatched' = unmatched
          /\ ~commentOnlyChanges => unmatched' = Append(unmatched, last'.issue)]_vars

\* C2 witness: with the flag on, a Context-line issue was dropped while the
\* unmatched list holds another issue.
C2_Witness ==
  /\ commentOnlyChanges
  /\ last.outcome = "context_dropped"
  /\ unmatched # <<>>

\* the target lines the reverse lookup may give for a resolved line
TargetLines(file, lineInfo) ==
  {TargetLine(actual) : actual \in ActualLines(positionMap[file], lineInfo)}

\* the iteration just made handled an issue resolved to a line on which a
\* fetched comment exists
HandledCommentedLine ==
  /\ issues' # issues
  /\ last'.outcome \in {"context_dropped", "context_fallback", "duplicate",
                        "posted", "post_failed"}
  /\ \E t \in TargetLines(last'.issue.File, last'.info) :
       Comment(last'.issue.File, t) \in existingComments

NothingPostedOrListed ==
  /\ calls' = calls
  /\ requests' = requests
  /\ posted' = posted
  /\ unmatched' = unmatched

\* C3 as claimed: an issue whose resolved (file, target line) is the (Path,
\* Line) of a fetched comment causes no PostInlineComment call and is in
\* neither the posted set nor the fallback list, for every provider, flag
\* setting and line kind.
C3_CommentedLineSkipped ==
  [][HandledCommentedLine => NothingPostedOrListed]_vars

\* C3 amended: the same for every issue that reaches the duplicate check; an
\* issue resolved to a Context line on GitLab with comment_only_changes off
\* is put on the fallback list before that check, also when a comment exists
\* on its line.
C3_CommentedLineSkippedAtCheck ==
  [][HandledCommentedLine =>
       IF last'.info.Type = " " /\ provider = ProviderTypeGitLab
          /\ ~commentOnlyChanges
       THEN /\ unmatched' = Append(unmatched, last'.issue)
            /\ calls' = calls /\ requests' = requests /\ posted' = posted
       ELSE NothingPostedOrListed]_vars

\* C3 witness: an issue resolved to an Added or Removed line was skipped as
\* a duplicate.
C3_Witness ==
  /\ last.outcome = "duplicate"
  /\ last.info.Type \in {"+", "-"}
  /\ Comment(last.issue.File, last.target) \in existingComments

LineMembers == {"new_line", "old_line"}

\* C4: a PostInlineComment call for GitLab carries newLine alone for an Added
\* line and oldLine alone for a Removed line, and the position object of a
\* GitLab request has exactly one of new_line / old_line.
C4_GitLabOneLineNumber ==
  provider = ProviderTypeGitLab =>
    /\ \A i \in 1..Len(calls) :
         /\ calls[i].type \in {"+", "-"}
         /\ calls[i].type = "+" => (calls[i].newLine > 0 /\ calls[i].oldLine = 0)
         /\ calls[i].type = "-" => (calls[i].oldLine > 0 /\ calls[i].newLine = 0)
    /\ \A i \in 1..Len(requests) :
         Cardinality(LineMembers \cap DOMAIN requests[i].position) = 1

\* C4 witness: GitLab was sent a comment on an Added and one on a Removed line.
C4_Witness ==
  /\ provider = ProviderTypeGitLab
  /\ \E i, j \in 1..Len(requests) :
       /\ "new_line" \in DOMAIN requests[i].position
       /\ "old_line" \in DOMAIN requests[j].position

\* the lines of a map whose normalized content equals / contains the snippet
EqualLines(lines, code) ==
  {n \in DOMAIN lines : normalizeSnippet(lines[n].Content) = normalizeSnippet(code)}

ContainingLines(lines, code) ==
  LET normalized == normalizeSnippet(code)
  IN  {n \in DOMAIN lines : Contains(normalizeSnippet(lines[n].Content), normalized)}

\* the distinct diff lines of a file's index the snippet equals
EqualEntries(f, code) ==
  {f.Old[n] : n \in EqualLines(f.Old, code)} \cup {f.New[n] : n \in EqualLines(f.New, code)}

\* the last iteration took an issue with a valid snippet in an indexed file
LastHadValidSnippet ==
  /\ last.outcome \notin {"none", "no_file"}
  /\ cleanCode(last.issue) # <<>>
  /\ normalizeSnippet(cleanCode(last.issue)) # <<>>
  /\ ~Contains(normalizeSnippet(cleanCode(last.issue)), ThreeDots)
  /\ ~Contains(normalizeSnippet(cleanCode(last.issue)), Ellipsis)

\* C5 as claimed: a valid snippet equal to exactly one line of the index
\* resolves to that line, and one equal to two or more lines is unresolved.
C5_UniqueEqualLineResolves ==
  LastHadValidSnippet =>
    LET equal == EqualEntries(positionMap[last.issue.File], cleanCode(last.issue))
    IN  /\ Cardinality(equal) = 1 => (LastResolved /\ last.info \in equal)
        /\ Cardinality(equal) >= 2 => last.outcome = "unresolved"

\* C5 amended: a line matches when its normalized content contains the
\* normalized snippet; the maps are searched one at a time, New then Old (Old
\* then New for side LEFT), and the first map with exactly one matching line
\* gives the result; resolution fails iff neither map has exactly one
\* matching line.
C5_UniqueWithinOneMap ==
  LastHadValidSnippet =>
    LET f      == positionMap[last.issue.File]
        code   == cleanCode(last.issue)
        first  == IF last.issue.Side = SideLeft THEN f.Old ELSE f.New
        second == IF last.issue.Side = SideLeft THEN f.New ELSE f.Old
        m1     == ContainingLines(first, code)
        m2     == ContainingLines(second, code)
    IN  IF Cardinality(m1) = 1 THEN LastResolved /\ \A n \in m1 : last.info = first[n]
        ELSE IF Cardinality(m2) = 1
        THEN LastResolved /\ \A n \in m2 : last.info = second[n]
        ELSE last.outcome = "unresolved"

\* C5 witness: the snippet is contained in two new lines and in one old
\* line, and the issue was resolved to the old line.
C5_Witness ==
  /\ LastHadValidSnippet
  /\ Cardinality(ContainingLines(positionMap[last.issue.File].New,
                                 cleanCode(last.issue))) = 2
  /\ LastResolved
  /\ last.info.Type = "-"

\* the resolved line holds the snippet
ResolvedBySnippet ==
  /\ LastResolved
  /\ LastHadValidSnippet
  /\ Contains(normalizeSnippet(last.info.Content),
              normalizeSnippet(cleanCode(last.issue)))

\* C6 as claimed: an issue with a non-empty snippet is resolved through the
\* snippet or not at all.
C6_SnippetNeverByLineNumber ==
  (last.issue.Code # <<>> /\ LastResolved) => ResolvedBySnippet

\* C6 amended: an issue whose snippet is non-empty after the echoed +/-
\* marker is stripped is resolved through the snippet or not at all; a
\* snippet that is only a +/- marker counts as no snippet, and the issue is
\* resolved through its line numbers.
C6_SnippetLeftAfterMarker ==
  /\ (cleanCode(last.issue) # <<>> /\ LastResolved) => ResolvedBySnippet
  /\ (last.issue.Code # <<>> /\ cleanCode(last.issue) = <<>>
        /\ last.outcome \notin {"none", "no_file"}) =>
       LET f == positionMap[last.issue.File]
       IN  LastResolved <=>
             \/ last.issue.NewLine > 0 /\ last.issue.NewLine \in DOMAIN f.New
             \/ last.issue.OldLine > 0 /\ last.issue.OldLine \in DOMAIN f.Old

\* C6 witness: a truncated snippet left the issue unresolved although its
\* new line number is in the index.
C6_Witness ==
  /\ last.outcome = "unresolved"
  /\ Contains(last.issue.Code, ThreeDots)
  /\ last.issue.NewLine \in DOMAIN positionMap[last.issue.File].New

\* C10: a failed PostInlineComment puts the issue on the fallback list and
\* the loop goes on; the run ends with every issue taken and the summary
\* comment posted.
C10_PostFailureDoesNotAbort ==
  [][/\ (issues' # issues /\ last'.outcome = "post_failed") =>
          /\ unmatched' = Append(unmatched, last'.issue)
          /\ calls'[Len(calls')].err
          /\ pc' = "loop"
     /\ pc' = "done" =>
          /\ Len(issues') = nIssues
          /\ Len(comments') = 1
          /\ comments'[1].table = unmatched'
          /\ \A i \in 1..Len(calls') :
               calls'[i].err => \E j \in 1..Len(unmatched') :
                                  unmatched'[j].File = calls'[i].file
    ]_vars

\* C10 witness: the first post failed, a later issue was still posted, and
\* the summary comment was posted.
C10_Witness ==
  /\ pc = "done"
  /\ Len(calls) >= 2
  /\ calls[1].err
  /\ ~calls[Len(calls)].err
  /\ Len(comments) = 1

\* the iteration just made ended with a successfully posted inline comment
PostedInline ==
  /\ issues' # issues
  /\ Len(calls') = Len(calls) + 1
  /\ ~calls'[Len(calls')].err

\* the issue is passed over in silence: it resolves to a Context line while
\* comment_only_changes is on, or it resolves to a line that reaches the
\* duplicate test and has a fetched comment
PassedOver(issue) ==
  /\ issue.File \in DOMAIN positionMap
  /\ LET resolved == resolveLineInfo(positionMap[issue.File], issue)
     IN  /\ resolved.ok
         /\ IF resolved.info.Type = " "
                 /\ (commentOnlyChanges \/ provider = ProviderTypeGitLab)
            THEN commentOnlyChanges
            ELSE \E t \in TargetLines(issue.File, resolved.info) :
                   Comment(issue.File, t) \in existingComments

\* C11 as claimed: every issue that did not end as a successfully posted
\* inline comment is put on the fallback list exactly once, and no
\* successfully posted issue is put on it.
C11_EveryUnpostedIssueListedOnce ==
  [][/\ FallbackKept
     /\ issues' # issues =>
          IF PostedInline THEN unmatched' = unmatched /\ posted' = posted + 1
          ELSE unmatched' = Append(unmatched, last'.issue) /\ posted' = posted]_vars

\* C11 amended: every issue that did not end as a successfully posted inline
\* comment is put on the fallback list exactly once, except the issues that
\* are passed over in silence (resolved to a Context line with
\* comment_only_changes on, or to a line that already has a fetched comment),
\* which are neither posted nor listed; no successfully posted issue is put
\* on the list, and the list only grows until it is returned.
C11_UnpostedListedUnlessPassedOver ==
  [][/\ FallbackKept
     /\ issues' # issues =>
          IF PostedInline THEN unmatched' = unmatched /\ posted' = posted + 1
          ELSE IF PassedOver(last'.issue)
          THEN unmatched' = unmatched /\ posted' = posted /\ calls' = calls
          ELSE unmatched' = Append(unmatched, last'.issue) /\ posted' = posted]_vars

\* C11 witness: the run is over with one issue posted and the other, which
\* could not be resolved, on the returned list.
C11_Witness ==
  /\ pc = "done"
  /\ Len(issues) = 2
  /\ posted = 1
  /\ unmatched = <<issues[2]>>
  /\ last.outcome = "unresolved"

(***************************************************************************)
(* The parser's properties.                                                *)
(***************************************************************************)
\* the non-empty cells of the line read by the step
CellsRead == splitTableRow(ReplaceAll(row', FullWidthBar, Bar))

\* the step read a line and extracted an issue from it
Extracted ==
  /\ reviewLines' # reviewLines
  /\ Len(parsed') = Len(parsed) + 1
  /\ SubSeq(parsed', 1, Len(parsed)) = parsed

Unquoted(cell) == Trim(cell, BacktickOrSpace)

\* the columns of a row of six or more cells: the side (0 for none), the
\* snippet (0 for none) and the severity; category, problem and suggestion
\* follow the severity
WideColumns(n) ==
  IF n >= 9 THEN [side |-> 4, code |-> 5, severity |-> 6]
  ELSE IF n = 8 THEN [side |-> 0, code |-> 4, severity |-> 5]
  ELSE [side |-> 0, code |-> 0, severity |-> 4]

\* the issue a row of six or more cells stands for
WideIssue(cells) ==
  LET col == WideColumns(Len(cells))
  IN  [File |-> Unquoted(cells[1]),
       OldLine |-> parseLineNumber(cells[2]),
       NewLine |-> parseLineNumber(cells[3]),
       Side |-> IF col.side = 0 THEN <<>> ELSE cells[col.side],
       Code |-> IF col.code = 0 THEN <<>> ELSE Unquoted(cells[col.code]),
       Severity |-> cells[col.severity],
       Category |-> cells[col.severity + 1],
       Problem |-> cells[col.severity + 2],
       Suggestion |-> IF Len(cells) >= col.severity + 3
                      THEN cells[col.severity + 3] ELSE <<>>]

\* the first cell of a row of five cells without its marker, split at ":"
PathAndLine(cells) == SplitN2(TrimLeft(cells[1], {"+", "-", " "}), ":")

\* the issue a row of five cells stands for
NarrowIssue(cells) ==
  [File |-> Unquoted(PathAndLine(cells)[1]),
   OldLine |-> 0,
   NewLine |-> Atoi(Unquoted(PathAndLine(cells)[2])).value,
   Side |-> IF Head(cells[1]) = "+" THEN SideRight
            ELSE IF Head(cells[1]) = "-" THEN SideLeft ELSE <<>>,
   Code |-> <<>>,
   Severity |-> cells[2], Category |-> cells[3], Problem |-> cells[4],
   Suggestion |-> cells[5]]

\* C12: the cell count of a row chooses its columns: 9 or more cells are
\* file, oldLine, newLine, side, snippet, severity, category, problem,
\* suggestion; 8 the same without the side; 6 or 7 the same without side and
\* snippet, the suggestion optional; 5 are path:line (a leading + or - giving
\* the side), severity, category, problem, suggestion.  The row
\* "file.go | 12 | - | major | bug | desc" gives oldLine 12, newLine 0, no
\* snippet, severity major, category bug, problem desc.
C12_ColumnsFromCellCount ==
  [][/\ Extracted =>
          /\ Len(CellsRead) >= 5
          /\ parsed'[Len(parsed')] = IF Len(CellsRead) >= 6 THEN WideIssue(CellsRead)
                                     ELSE NarrowIssue(CellsRead)
     /\ (reviewLines' # reviewLines /\ row' = Row6) =>
          /\ Extracted
          /\ parsed'[Len(parsed')] =
               [File |-> FileGo, Side |-> <<>>, OldLine |-> 12, NewLine |-> 0,
                Code |-> <<>>, Severity |-> TextMajor, Category |-> TextBug,
                Problem |-> TextDesc, Suggestion |-> <<>>]]_vars

\* C12 witness: a row of 8 cells and then the row of 6 cells of the example
\* were read.
C12_Witness ==
  /\ row = Row6
  /\ Len(parsed) = 2
  /\ parsed[1].Code = TextNewLine
  /\ parsed[1].Severity = TextMajor
  /\ parsed[2].OldLine = 12

\* the file a row names
RowFile(cells) ==
  IF Len(cells) >= 6 THEN Unquoted(cells[1]) ELSE Unquoted(PathAndLine(cells)[1])

\* the line is none of an issue: fewer than 5 non-empty cells, a header or
\* separator row, a row with an empty file, or a row whose old and new line
\* fields both parse to 0
NoiseRow(cells) ==
  \/ Len(cells) < 5
  \/ Contains(cells[1], HeaderKeyword)
  \/ Contains(cells[1], Dashes)
  \/ RowFile(cells) = <<>>
  \/ Len(cells) >= 6 /\ parseLineNumber(cells[2]) = 0 /\ parseLineNumber(cells[3]) = 0

\* C13: a noise line (fewer than 5 non-empty cells, header or separator row,
\* empty file, old and new line both 0) produces no issue and leaves what was
\* extracted from the other lines as it is; every other line leaves the
\* issues extracted before it in place.
C13_NoiseRowsGiveNoIssue ==
  [][reviewLines' # reviewLines =>
       /\ SubSeq(parsed', 1, Len(parsed)) = parsed
       /\ NoiseRow(CellsRead) => parsed' = parsed]_vars

(***************************************************************************)
(* Properties of the run on malformed diff text.                           *)
(***************************************************************************)
\* line i of the diff is the "+++ b/" header of the file
IsSectionOf(diff, i, file) ==
  /\ HasPrefix(diff[i], PlusPlusPlusB)
  /\ TrimSpace(TrimPrefix(diff[i], PlusPlusPlusB)) = file

HasSection(diff, file) == \E i \in 1..Len(diff) : IsSectionOf(diff, i, file)

\* a hunk header that gives a start line for at least one side
ValidHunkHeader(line) ==
  /\ HasPrefix(line, AtAt)
  /\ parseOldHunkStart(line) > 0 \/ parseNewHunkStart(line) > 0

\* some section of the file holds a valid hunk header
HasValidHunk(diff, file) ==
  \E i, j \in 1..Len(diff) :
    /\ i < j
    /\ IsSectionOf(diff, i, file)
    /\ ValidHunkHeader(diff[j])
    /\ \A k \in (i + 1)..(j - 1) : ~IsFileHeader(diff[k])

FilesNamed == {FileA, FileB, FileZ}

\* C14: on any diff text buildDiffPositionMap returns a map; a file with no
\* valid hunk has empty Old and New maps, a file whose only header is the
\* "+++ /dev/null" sentinel has no index at all, and every issue naming such
\* a file is unresolved and put on the fallback list.
C14_BadDiffDegrades ==
  [][/\ (pc = "index" /\ pc' # "index") =>
          \A file \in FilesNamed :
            /\ ~HasSection(diffText, file) => file \notin DOMAIN positionMap'
            /\ (HasSection(diffText, file) /\ ~HasValidHunk(diffText, file)) =>
                 /\ file \in DOMAIN positionMap'
                 /\ DOMAIN positionMap'[file].Old = {}
                 /\ DOMAIN positionMap'[file].New = {}
     /\ (issues' # issues /\ ~HasValidHunk(diffText, last'.issue.File)) =>
          /\ unmatched' = Append(unmatched, last'.issue)
          /\ calls' = calls
          /\ posted' = posted]_vars

\* C14 witness: the hunk header of a.go is garbled, z.go is deleted, and the
\* run ended with an issue naming a.go and one naming z.go on the list.
C14_Witness ==
  /\ pc = "done"
  /\ diffText = GarbledHeaderDiff
  /\ DOMAIN positionMap = {FileA}
  /\ Len(unmatched) = 2
  /\ unmatched[1].File = FileA
  /\ unmatched[2].File = FileZ

(***************************************************************************)
(* C15: what comment_only_changes does to an issue on a Context line.      *)
(***************************************************************************)
\* the iteration just made resolved its issue to a Context line
TookContextIssue == issues' # issues /\ last'.info.Type = " "

\* the iteration just made called PostInlineComment for its issue
CalledFor ==
  /\ Len(calls') = Len(calls) + 1
  /\ calls'[Len(calls')].file = last'.issue.File
  /\ calls'[Len(calls')].type = last'.info.Type

\* the summary comment just posted carries the table of the fallback list
\* as the loop has left it
SummaryOfFallbackList ==
  comments' # comments => comments'[Len(comments')].table = unmatched

\* C15 as claimed: with comment_only_changes on, an issue resolved to a
\* Context line gets no inline comment and no entry in the fallback list
\* that the table of the summary comment is built from, on either provider;
\* with the flag off, PostInlineComment is called for it on GitHub, and on
\* GitLab it is put on that list.
C15_ContextIssueFollowsFlag ==
  [][/\ SummaryOfFallbackList
     /\ TookContextIssue =>
          IF commentOnlyChanges THEN calls' = calls /\ unmatched' = unmatched
          ELSE IF provider = ProviderTypeGitLab
          THEN calls' = calls /\ unmatched' = Append(unmatched, last'.issue)
          ELSE CalledFor]_vars

\* C15 amended: as claimed, except that with the flag off GitHub is sent the
\* inline comment only when no fetched comment already sits at (file, target
\* line); when one does, the issue is skipped and appears in no comment.  A
\* call that fails puts the issue on the fallback list.
C15_ContextIssueFollowsFlagAndDedupe ==
  [][/\ SummaryOfFallbackList
     /\ TookContextIssue =>
          IF commentOnlyChanges THEN calls' = calls /\ unmatched' = unmatched
          ELSE IF provider = ProviderTypeGitLab
          THEN calls' = calls /\ unmatched' = Append(unmatched, last'.issue)
          ELSE IF Comment(last'.issue.File, last'.target) \in existingComments
          THEN calls' = calls /\ unmatched' = unmatched
          ELSE /\ CalledFor
               /\ unmatched' = IF calls'[Len(calls')].err
                               THEN Append(unmatched, last'.issue) ELSE unmatched]_vars

\* C15 witness: with the flag off, a run on GitHub that fetched comments has
\* posted an inline comment on a Context line and has published its summary.
C15_Witness ==
  /\ ~commentOnlyChanges
  /\ provider = ProviderTypeGitHub
  /\ existingComments # {}
  /\ pc = "done"
  /\ \E i \in 1..Len(calls) : calls[i].type = " " /\ ~calls[i].err

(***************************************************************************)
(* C19: the summary comment of a run in inline mode and its table.         *)
(***************************************************************************)
\* a field as it reads in a cell of the table
CellText(value) == IF value = <<>> THEN <<"-">> ELSE value

\* the row of the table shows the issue: its file and new line, snippet,
\* severity, category, problem and suggestion between bars
ShowsIssue(tableLine, issue) ==
  tableLine =
    <<"|", " ">> \o issue.File \o <<":">>
      \o (IF issue.NewLine > 0 THEN Itoa(issue.NewLine) ELSE <<"-">>)
      \o CellSep \o CellText(issue.Code) \o CellSep \o CellText(issue.Severity)
      \o CellSep \o CellText(issue.Category) \o CellSep \o CellText(issue.Problem)
      \o CellSep \o CellText(issue.Suggestion) \o <<" ", "|">>

\* the text is the table of the list: nothing for an empty list, else the
\* title, the header, the separator and one row per issue in list order
IsTableOf(text, issueList) ==
  IF issueList = <<>> THEN text = <<>>
  ELSE /\ Len(text) = Len(issueList) + 3
       /\ SubSeq(text, 1, 3) = <<TableTitle, TableHeader, TableSeparator>>
       /\ \A i \in 1..Len(issueList) : ShowsIssue(text[3 + i], issueList[i])

\* a summary comment is posted only when every issue of the run has been
\* handled, it carries the table of the fallback list, and after it no inline
\* post is attempted and no second summary is posted
SummaryAfterInlinePosts ==
  /\ Len(comments') <= 1
  /\ comments # <<>> => calls' = calls /\ comments' = comments
  /\ comments' # comments =>
       /\ Len(issues) = nIssues
       /\ calls' = calls
       /\ IsTableOf(comments'[1].text, unmatched)

LineNumberTries(issue) ==
  <<[applies |-> issue.Side = SideRight /\ issue.NewLine > 0, new |-> TRUE,
     line |-> issue.NewLine],
    [applies |-> issue.Side = SideLeft /\ issue.OldLine > 0, new |-> FALSE,
     line |-> issue.OldLine],
    [applies |-> issue.NewLine > 0, new |-> TRUE, line |-> issue.NewLine],
    [applies |-> issue.OldLine > 0, new |-> FALSE, line |-> issue.OldLine]>>

SideOf(fileLines, try) == IF try.new THEN fileLines.New ELSE fileLines.Old

\* the tries that hit
LineNumberHits(fileLines, issue) ==
  {k \in 1..4 : LET try == LineNumberTries(issue)[k]
                IN  try.applies /\ try.line \in DOMAIN SideOf(fileLines, try)}

FirstOf(S) == CHOOSE k \in S : \A j \in S : k <= j

\* C20: for an issue without a snippet, resolveLineInfo returns the entry of
\* the first of the four tries that hits (RIGHT and newLine in New, LEFT and
\* oldLine in Old, newLine in New, oldLine in Old), and reports the issue
\* unresolved when none hits.
C20_LineNumberTriesInOrder ==
  pc = "resolved" =>
    LET fileLines == positionMap[last.issue.File]
        hits == LineNumberHits(fileLines, last.issue)
    IN  IF hits = {} THEN last.outcome = "unresolved"
        ELSE LET try == LineNumberTries(last.issue)[FirstOf(hits)]
             IN  /\ last.outcome = "resolved"
                 /\ last.info = SideOf(fileLines, try)[try.line]

\* C20 witness: an issue with side LEFT whose two line numbers are both in
\* the index was resolved to the entry of the old side, which differs from
\* the entry of the new side.
C20_Witness ==
  /\ pc = "resolved"
  /\ last.issue.Side = SideLeft
  /\ last.issue.OldLine \in DOMAIN positionMap[FileA].Old
  /\ last.issue.NewLine \in DOMAIN positionMap[FileA].New
  /\ last.info = positionMap[FileA].Old[last.issue.OldLine]
  /\ last.info # positionMap[FileA].New[last.issue.NewLine]

(***************************************************************************)
(* C16: concurrent runs.                                                   *)
(***************************************************************************)
\* run r has just returned from postInlineIssues
Returned(r) == runs[r].pc # "done" /\ runs'[r].pc = "done"

\* the post operations and the fallback list of run r are those of a run
\* that receives the same answers and has the server to itself
AsAlone(r) ==
  \E alone \in RunAlone(NewRun(runs'[r].repo, runs'[r].number, runs'[r].provider,
                               runs'[r].token),
                        world[r], cfg.commentOnlyChanges) :
    /\ alone.calls = runs'[r].calls
    /\ alone.unmatched = runs'[r].unmatched

Answered(handler) == served' = served + 1 /\ response'.handler = handler

\* the provider the request asks for, or the configured one
RequestedProvider(req) ==
  IF req.body.provider = "" THEN cfg.vcsProvider ELSE req.body.provider

\* exactly one run was started, for the provider, and it has not been waited
\* for: it is at its start when the answer is written
StartedOneRun(providerType) ==
  /\ Len(runs') = Len(runs) + 1
  /\ SubSeq(runs', 1, Len(runs)) = runs
  /\ runs'[Len(runs')].provider = providerType
  /\ runs'[Len(runs')].pc = "started"

\* C17: HandleReview answers 202 and starts exactly one run, without waiting
\* for it, for a POST with valid JSON and a supported provider (the
\* request's if given, else the configured one); it answers 405 to another
\* method, 400 to invalid JSON and 400 to an unsupported provider, and then
\* starts no run.
C17_ReviewRequestStartsOneRun ==
  [][Answered("review") =>
       LET req == response'.req
       IN  IF req.method # MethodPost
           THEN response'.status = StatusMethodNotAllowed /\ runs' = runs
           ELSE IF ~req.body.json
           THEN response'.status = StatusBadRequest /\ runs' = runs
           ELSE IF RequestedProvider(req) \notin {ProviderTypeGitHub, ProviderTypeGitLab}
           THEN response'.status = StatusBadRequest /\ runs' = runs
           ELSE /\ response'.status = StatusAccepted
                /\ StartedOneRun(RequestedProvider(req))]_vars

\* C17 witness: a request that names no provider was answered 202 on a server
\* configured for GitLab, and the run it started has not begun its work,
\* while an earlier run has finished.
C17_Witness ==
  /\ response.handler = "review"
  /\ response.status = StatusAccepted
  /\ response.req.body.provider = ""
  /\ cfg.vcsProvider = ProviderTypeGitLab
  /\ Len(runs) = 2
  /\ runs[1].pc = "done"
  /\ runs[2].pc = "started"
  /\ runs[2].provider = ProviderTypeGitLab

(***************************************************************************)
(* C18: HandleGitLabWebhook.                                               *)
(***************************************************************************)
\* the token check passes: no token is configured, or the header equals it
TokenAccepted(req) == cfg.webhookToken = "" \/ req.token = cfg.webhookToken

\* the delivery is a merge request event that asks for a review
ReviewableEvent(req) ==
  /\ req.event = EventMergeRequest
  /\ req.body.json
  /\ req.body.kind = KindMergeRequest
  /\ req.body.action \in {"open", "update", "reopen"}

\* the delivery is another event, or a payload of another object kind or
\* another action
OtherEvent(req) ==
  /\ req.body.readable
  /\ \/ req.event # EventMergeRequest
     \/ /\ req.body.json
        /\ \/ req.body.kind # KindMergeRequest
           \/ req.body.action \notin {"open", "update", "reopen"}

\* C18: HandleGitLabWebhook starts a run exactly when the request is a POST
\* that passes the token check and carries a 'Merge Request Hook' event whose
\* payload has object_kind 'merge_request' and action open, update or
\* reopen; a POST with a token mismatch is answered 401, and a POST that
\* passes the token check with another event, object kind or action is
\* answered 200, without a run.
C18_WebhookStartsRunOnMergeRequest ==
  [][Answered("webhook") =>
       LET req == response'.req
       IN  /\ IF req.method = MethodPost /\ TokenAccepted(req) /\ ReviewableEvent(req)
              THEN StartedOneRun(ProviderTypeGitLab)
              ELSE runs' = runs
           /\ req.method = MethodPost /\ ~TokenAccepted(req) =>
                response'.status = StatusUnauthorized
           /\ req.method = MethodPost /\ TokenAccepted(req) /\ OtherEvent(req) =>
                response'.status = StatusOK]_vars

\* C18 witness: with a token configured, a delivery with the right token and
\* the action 'update' was answered 202 and started a run.
C18_Witness ==
  /\ response.handler = "webhook"
  /\ cfg.webhookToken # ""
  /\ response.req.token = cfg.webhookToken
  /\ response.req.body.json
  /\ response.req.body.action = "update"
  /\ response.status = StatusAccepted
  /\ runs # <<>>
  /\ runs[Len(runs)].pc = "started"

(***************************************************************************)
(* C21: the side hint in snippet matching.                                 *)
(***************************************************************************)
\* the line numbers of the map whose line holds the snippet of the issue
MatchesIn(lines, issue) ==
  LET wanted == normalizeSnippet(cleanCode(issue))
  IN  {n \in DOMAIN lines : Contains(normalizeSnippet(lines[n].Content), wanted)}

\* the map the side hint names, and the opposite one
HintedMap(fileLines, issue) ==
  IF issue.Side = SideLeft THEN fileLines.Old ELSE fileLines.New

OppositeMap(fileLines, issue) ==
  IF issue.Side = SideLeft THEN fileLines.New ELSE fileLines.Old

\* C21: with a snippet, side LEFT searches Old and then New, every other
\* side New and then Old; the line is the only match of the first map if it
\* has exactly one, else the only match of the opposite map if that has
\* exactly one, else the issue is unresolved.
C21_SideOnlyOrdersTheSearch ==
  pc = "matched" =>
    LET fileLines == positionMap[last.issue.File]
        first     == HintedMap(fileLines, last.issue)
        second    == OppositeMap(fileLines, last.issue)
        hinted    == MatchesIn(first, last.issue)
        opposite  == MatchesIn(second, last.issue)
    IN  IF Cardinality(hinted) = 1
        THEN last.outcome = "resolved" /\ \A n \in hinted : last.info = first[n]
        ELSE IF Cardinality(opposite) = 1
        THEN last.outcome = "resolved" /\ \A n \in opposite : last.info = second[n]
        ELSE last.outcome = "unresolved"

\* C21 witness: with side LEFT the snippet is in no old line and in exactly
\* one new line, and the issue was resolved to that added line.
C21_Witness ==
  /\ pc = "matched"
  /\ last.issue.Side = SideLeft
  /\ MatchesIn(positionMap[FileA].Old, last.issue) = {}
  /\ Cardinality(MatchesIn(positionMap[FileA].New, last.issue)) = 1
  /\ last.outcome = "resolved"
  /\ last.info.Type = "+"

(***************************************************************************)
(* C22, C23: the lines inside a hunk.                                      *)
(***************************************************************************)
\* a line has just been scanned (it is cur')
Scanned == diffText' # diffText \/ extra' # extra

\* the scan is inside a hunk, whose header gave a start, of a file that has
\* an index
InsideHunk(s) ==
  /\ s.inPatch
  /\ s.currentFile \in DOMAIN s.lineMap
  /\ s.inHunk
  /\ ~(s.oldLine = 0 /\ s.newLine = 0)

\* the line just scanned was recorded as the only change of the scan: in the
\* map of its side at the side's counter, with the next position
RecordedAs(type) ==
  LET p      == scan.position + 1
      before == scan.lineMap[scan.currentFile]
      entry  == diffLineInfo(p, Tail(cur'), type)
  IN  /\ scan'.currentFile = scan.currentFile
      /\ scan'.position = p
      /\ IF type = "+"
         THEN /\ scan'.lineMap[scan.currentFile] =
                   [before EXCEPT !.New = Put(before.New, scan.newLine, entry)]
              /\ scan'.newLine = scan.newLine + 1
              /\ scan'.oldLine = scan.oldLine
         ELSE /\ scan'.lineMap[scan.currentFile] =
                   [before EXCEPT !.Old = Put(before.Old, scan.oldLine, entry)]
              /\ scan'.oldLine = scan.oldLine + 1
              /\ scan'.newLine = scan.newLine

\* C22 as claimed: inside a hunk of a file that has an index, every line
\* whose first character is '+' is recorded as an Added line in New at the
\* new-line counter, and every line whose first character is '-' as a
\* Removed line in Old at the old-line counter, each with the next position
\* and whatever the rest of the line is.
C22_MarkerAloneDecides ==
  [][(Scanned /\ InsideHunk(scan) /\ cur' # <<>>) =>
       /\ Head(cur') = "+" => RecordedAs("+")
       /\ Head(cur') = "-" => RecordedAs("-")]_vars

\* a header line: "diff --git ", "+++ " or "@@"
IsHeaderLine(line) ==
  HasPrefix(line, DiffGitPrefix) \/ HasPrefix(line, PlusPlusPlus) \/ HasPrefix(line, AtAt)

\* the line is skipped inside a hunk: the "no newline" marker, an empty line,
\* or a line that is no header and starts with none of '+', '-', ' '
SkippedKind(line) ==
  \/ line = NoNewline
  \/ line = <<>>
  \/ ~IsHeaderLine(line) /\ Head(line) \notin {"+", "-", " "}

\* C23: inside a hunk, a "\ No newline at end of file" marker, an empty line
\* or a line (other than a header line) that starts with none of '+', '-',
\* ' ' leaves the position, both line counters, the current file and both
\* maps of every file as they are, and the scan goes on: the lines after it
\* are still indexed.
C23_SkippedLinesChangeNothing ==
  [][/\ (Scanned /\ InsideHunk(scan) /\ SkippedKind(cur')) => scan' = scan
     /\ (Scanned /\ InsideHunk(scan) /\ IsIndexed(scan, cur')) =>
          scan'.position = scan.position + 1]_vars

\* C23 witness: inside a hunk the marker was scanned after two indexed
\* lines, and the scan state is that of the two lines.
C23_Witness ==
  /\ cur = NoNewline
  /\ InsideHunk(scan)
  /\ scan.position = 2
  /\ Len(hunk.body) = 2

(***************************************************************************)
(* C24: what the GitHub provider is called with.                           *)
(***************************************************************************)
\* the entry is one of the file's index
InIndex(file, info) ==
  /\ file \in DOMAIN positionMap
  /\ \/ \E n \in DOMAIN positionMap[file].New : positionMap[file].New[n] = info
     \/ \E o \in DOMAIN positionMap[file].Old : positionMap[file].Old[o] = info

\* C24: for the GitHub provider every PostInlineComment call, and the request
\* it sends, carries the position of the index entry the issue was resolved
\* to, which is at least 1; and with comment_only_changes off an issue
\* resolved to an Added, Removed or Context line alike goes on to the
\* duplicate test and, if no comment is on its line, to the call.
C24_GitHubPostsAtIndexPosition ==
  [][(issues' # issues /\ provider = ProviderTypeGitHub) =>
       /\ calls' # calls =>
            LET call == calls'[Len(calls')]
                sent == requests'[Len(requests')]
            IN  /\ InIndex(last'.issue.File, last'.info)
                /\ call.file = last'.issue.File
                /\ call.position = last'.info.Position
                /\ call.position >= 1
                /\ Len(requests') = Len(requests) + 1
                /\ sent.path = call.file
                /\ sent.position = call.position
       /\ (~commentOnlyChanges /\ last'.info.Type \in {"+", "-", " "}) =>
            /\ last'.outcome \in {"duplicate", "posted", "post_failed"}
            /\ last'.outcome # "duplicate" => Len(calls') = Len(calls) + 1]_vars

\* C24 witness: with the flag off the GitHub provider was called for an issue
\* on a Context line and for one on a Removed line, each at its position.
C24_Witness ==
  /\ provider = ProviderTypeGitHub
  /\ ~commentOnlyChanges
  /\ Len(calls) = 2
  /\ calls[1].type = " "
  /\ calls[2].type = "-"
  /\ calls[2].position = last.info.Position
  /\ calls[1].position >= 1

(***************************************************************************)
(* C25: the comments a run deduplicates against.                           *)
(***************************************************************************)
\* the issue run r handles in this step lies on a line that has a comment in
\* the list
OnCommentedLine(r, fetched) ==
  LET issue == world[r].issues[runs[r].handled + 1]
  IN  /\ issue.File \in DOMAIN runs[r].positionMap
      /\ LET fileLines == runs[r].positionMap[issue.File]
             resolved  == resolveLineInfo(fileLines, issue)
         IN  /\ resolved.ok
             /\ ContextPolicy(resolved.info.Type, cfg.commentOnlyChanges,
                              runs[r].provider) = "post"
             /\ \A actual \in ActualLines(fileLines, resolved.info) :
                  isDuplicateComment(fetched, issue.File, TargetLine(actual))

\* C25: each run calls GetInlineComments once, between building the index
\* and the first iteration of its loop, so before its first PostInlineComment
\* call; until then the run has no list and has made no call; afterwards its
\* list is what that one call returned to it and never changes, whatever
\* another run was given; and an issue is skipped as a duplicate exactly
\* when the run's own fetched list has a comment on the issue's line.
C25_OneFetchPerRunBeforePosts ==
  [][\A r \in TwoRuns :
       LET before == runs[r]
           after  == runs'[r]
       IN  /\ before.pc \in {"started", "fetch"} =>
                before.existingComments = {} /\ before.calls = <<>>
           /\ after.existingComments # before.existingComments =>
                before.pc = "fetch" /\ after.pc = "loop"
           /\ (before.pc = "fetch" /\ after # before) =>
                /\ after.pc = "loop"
                /\ after.existingComments = world[r].fetched
                /\ after.calls = <<>>
           /\ after.pc = "fetch" => before.pc \in {"started", "fetch"}
           /\ before.pc \in {"loop", "done"} =>
                after.existingComments = world[r].fetched
           /\ after.handled = before.handled + 1 =>
                /\ OnCommentedLine(r, world[r].fetched) =>
                     after.calls = before.calls /\ after.unmatched = before.unmatched
                /\ after.calls # before.calls =>
                     LET call == after.calls[Len(after.calls)]
                     IN  ~isDuplicateComment(world[r].fetched, call.file,
                            TargetLine([old |-> call.oldLine, new |-> call.newLine]))]_vars

\* C25 witness: two runs handled the same issue first; the run whose fetch
\* returned a comment on the issue's line made no call, the run whose fetch
\* returned no comment made one.
C25_Witness ==
  /\ world[1].issues[1] = IssueOnAdded
  /\ world[2].issues[1] = IssueOnAdded
  /\ world[1].fetched # {}
  /\ world[2].fetched = {}
  /\ runs[1].handled >= 1
  /\ runs[2].handled >= 1
  /\ runs[1].existingComments = world[1].fetched
  /\ runs[1].calls = <<>>
  /\ Len(runs[2].calls) = 1

(***************************************************************************)
(* C30: the review modes of ProcessReview.                                 *)
(***************************************************************************)
\* an attempt produced a review
SomeReview == \E i \in 1..Len(attempts) : attempts[i].failed = "none"

\* the Claude CLI attempt failed and what follows it has happened
CLIFailedAndFollowedUp ==
  /\ attempts # <<>>
  /\ attempts[1].mode = "claude_cli"
  /\ attempts[1].failed # "none"
  /\ pc # "api"

\* C30: in claude_cli mode, when the CLI review fails at whatever step,
\* exactly one attempt in API mode follows and no attempt after that;
\* an inline comment or a summary comment is posted only if one of the
\* attempts produced a review; and when both fail the run has ended with no
\* PostInlineComment call, no request and no comment.
C30_OneAPIAttemptAfterCLIFailure ==
  /\ CLIFailedAndFollowedUp =>
       /\ Len(attempts) = 2
       /\ attempts[2].mode = "api"
  /\ \A i \in 1..Len(attempts) : attempts[i].failed = "none" => i = Len(attempts)
  /\ (calls # <<>> \/ requests # <<>> \/ comments # <<>>) => SomeReview
  /\ (CLIFailedAndFollowedUp /\ ~SomeReview) =>
       /\ pc = "failed"
       /\ calls = <<>>
       /\ requests = <<>>
       /\ comments = <<>>
       /\ posted = 0

\* C30 witness: the CLI review failed while cloning, the API attempt gave a
\* review, and an inline comment and the summary were posted.
C30_Witness ==
  /\ pc = "done"
  /\ Len(attempts) = 2
  /\ attempts[1] = [mode |-> "claude_cli", failed |-> "CloneAndCheckout"]
  /\ attempts[2] = [mode |-> "api", failed |-> "none"]
  /\ posted >= 1
  /\ Len(comments) = 1

(***************************************************************************)
(* C26: the order of the issues from the report to the fallback list.      *)
(***************************************************************************)
\* the lines of the report that give an issue, by their number in the report
IssueRows(lines) ==
  SelectSeq([i \in 1..Len(lines) |-> i], LAMBDA i : parseReviewLine(lines[i]) # <<>>)

\* the issues are those of the rows of the report, row by row
InRowOrder(list, content) ==
  LET lines == Split(content, Newline)
      rows  == IssueRows(lines)
  IN  /\ Len(list) = Len(rows)
      /\ \A k \in 1..Len(rows) : <<list[k]>> = parseReviewLine(lines[rows[k]])

RECURSIVE IsSubsequence(_, _)
\* sub is seq with some of its elements left out
IsSubsequence(sub, seq) ==
  IF sub = <<>> THEN TRUE
  ELSE IF seq = <<>> THEN FALSE
  ELSE IF Head(sub) = Head(seq) THEN IsSubsequence(Tail(sub), Tail(seq))
  ELSE IsSubsequence(sub, Tail(seq))

\* C26: parseIssuesFromReview gives the issues in the order of their rows in
\* the report; postInlineIssues takes them in that order; and the fallback
\* list grows only at its end, by the issue just taken, so that it is a
\* subsequence of the extracted list in the same relative order.
C26_OrderFromReportToFallback ==
  [][/\ (pc = "index" /\ pc' = "fetch") => InRowOrder(parsed', reviewContent)
     /\ issues' # issues =>
          /\ issues' = SubSeq(parsed, 1, Len(issues) + 1)
          /\ \/ unmatched' = unmatched
             \/ unmatched' = Append(unmatched, parsed[Len(issues) + 1])
          /\ IsSubsequence(unmatched', issues')
     /\ (pc = "loop" /\ pc' = "done") =>
          comments'[1].table = unmatched /\ IsSubsequence(unmatched, parsed)]_vars

\* C26 witness: a report of two rows gave two different issues, the first was
\* posted, and the run ended with only the second of them on the fallback
\* list.
C26_Witness ==
  /\ pc = "done"
  /\ Len(parsed) >= 2
  /\ posted = 1
  /\ parsed[1] # parsed[Len(parsed)]
  /\ unmatched = <<parsed[Len(parsed)]>>
  /\ comments[1].table = unmatched

(***************************************************************************)
(* C27: resolution and dispatch change neither the index nor the issues.   *)
(***************************************************************************)
\* C27: from the return of buildDiffPositionMap and parseIssuesFromReview to
\* the return of postInlineIssues no step changes the position index, the
\* diff, the report or an extracted issue; the issue an iteration handles
\* and the issue it puts on the fallback list are the extracted record,
\* field by field; and at the return the index is still the index of the
\* diff and every fallback entry an extracted record.
C27_DispatchLeavesIndexAndIssues ==
  [][(pc = "fetch" \/ pc = "loop") =>
       /\ positionMap' = positionMap
       /\ parsed' = parsed
       /\ diffText' = diffText
       /\ reviewContent' = reviewContent
       /\ issues' # issues =>
            /\ last'.issue = parsed[Len(issues) + 1]
            /\ issues'[Len(issues')] = parsed[Len(issues) + 1]
            /\ unmatched' # unmatched =>
                 unmatched'[Len(unmatched')] = parsed[Len(issues) + 1]
       /\ pc' = "done" =>
            /\ positionMap = buildDiffPositionMap(diffText)
            /\ parsed = parseIssuesFromReview(reviewContent)
            /\ \A k \in 1..Len(unmatched) :
                 \E i \in 1..Len(parsed) : parsed[i] = unmatched[k]]_vars

\* C27 witness: an issue resolved by its snippet was posted, and an issue
\* whose snippet echoes the diff marker is on the fallback list, marker
\* included.
C27_Witness ==
  /\ pc = "done"
  /\ posted = 1
  /\ Len(calls) = 1
  /\ \E i \in 1..Len(parsed) : parsed[i].Code = TextNewLine /\ parsed[i].File = FileA
  /\ Len(unmatched) = 1
  /\ unmatched[1].Code = BodyNewLine

(***************************************************************************)
(* C29: calls of one run for one line.                                     *)
(***************************************************************************)
\* the line a call comments on
CallTarget(call) == TargetLine([old |-> call.oldLine, new |-> call.newLine])

\* C29 as claimed: within a run no two PostInlineComment calls are made for
\* the same (file, target line), also when two issues resolve to one line.
C29_NoTwoCallsForOneLine ==
  \A i, j \in 1..Len(calls) :
    (calls[i].file = calls[j].file /\ CallTarget(calls[i]) = CallTarget(calls[j]))
      => i = j

\* C29 amended: a run makes no PostInlineComment call for a (file, target
\* line) on which the list fetched at its start has a comment; that list is
\* not extended by the calls of the run, an issue is skipped as a duplicate
\* only on account of that list, and an issue that reaches the duplicate
\* test on a line without a fetched comment gets its own call, whether or
\* not an earlier issue of the run was posted to the same line.
C29_CallsDedupedAgainstFetchedListOnly ==
  [][issues' # issues =>
       /\ existingComments' = existingComments
       /\ calls' # calls =>
            LET call == calls'[Len(calls')]
            IN  ~isDuplicateComment(existingComments, call.file, CallTarget(call))
       /\ last'.outcome = "duplicate" =>
            /\ Comment(last'.issue.File, last'.target) \in existingComments
            /\ calls' = calls
       /\ (/\ last'.outcome \in {"duplicate", "posted", "post_failed"}
           /\ ~isDuplicateComment(existingComments, last'.issue.File, last'.target)) =>
            /\ Len(calls') = Len(calls) + 1
            /\ calls'[Len(calls')].file = last'.issue.File
            /\ CallTarget(calls'[Len(calls')]) = last'.target]_vars

\* C29 witness: two issues of a run were posted to the same line of the same
\* file, on which no comment had been fetched.
C29_Witness ==
  /\ Len(calls) = 2
  /\ ~calls[1].err
  /\ ~calls[2].err
  /\ calls[1].file = calls[2].file
  /\ CallTarget(calls[1]) = CallTarget(calls[2])
  /\ issues[1] # issues[2]
  /\ ~isDuplicateComment(existingComments, calls[1].file, CallTarget(calls[1]))

(***************************************************************************)
(* C28: the reverse lookup of a position.                                  *)
(***************************************************************************)
\* every entry of the map is found again by its position, under its own line
\* number and no other, and no entry has line number 0
LookupDeterministic(lines) ==
  \A n \in DOMAIN lines :
    /\ findLineNumberByPosition(lines, lines[n].Position) = {n}
    /\ n # 0

\* C28 as claimed: for any diff text, in the Old map and in the New map of
\* every file, findLineNumberByPosition gives for the position of an entry
\* the line number of that entry: no two line numbers of a map share a
\* position and no indexed line has line number 0, also when a file path
\* heads more than one file section.
C28_ReverseLookupDeterministic ==
  \A f \in DOMAIN scan.lineMap :
    /\ LookupDeterministic(scan.lineMap[f].Old)
    /\ LookupDeterministic(scan.lineMap[f].New)

====
